---- MODULE Spec2Model ----
(***************************************************************************)
(* Semantic analysis phase of the Decaf compiler (p3-analysis).            *)
(*                                                                         *)
(* The model follows the pipeline of run_analysis / main: the parser's     *)
(* tree is decorated by the SetParent, CalcDepth and BuildSymbolTables     *)
(* visitors and then handed to analyze.  Every visitor callback is one     *)
(* action; the walk of NodeVisitor_traverse decides which callback fires   *)
(* next.  A node is addressed by its path from the root (the sequence of   *)
(* child positions), which plays the role of the ASTNode pointer.          *)
(***************************************************************************)
EXTENDS Integers, Sequences, FiniteSets, TLC

(***************************************************************************)
(* Program constants                                                       *)
(***************************************************************************)

\* DecafType (include/common.h)
UNKNOWN == 0
INT == 1
BOOL == 2
VOID == 3
STR == 4

\* Symbol.symbol_type (include/symbol.h)
SCALAR_SYMBOL == 0
ARRAY_SYMBOL == 1
FUNCTION_SYMBOL == 2

\* BinaryOpType
OROP == 0
ANDOP == 1
EQOP == 2
NEQOP == 3
LTOP == 4
LEOP == 5
GEOP == 6
GTOP == 7
ADDOP == 8
SUBOP == 9
MULOP == 10
DIVOP == 11
MODOP == 12

\* UnaryOpType
NEGOP == 0
NOTOP == 1

\* the null pointer, as a node and as a table reference
NULL == [type |-> "NULL"]
NULL_TABLE == 0

IsNull(n) == n.type = "NULL"

(***************************************************************************)
(* AST constructors (src/ast.c)                                            *)
(***************************************************************************)

ProgramNode_new(vars, funcs) ==
    [type |-> "PROGRAM", source_line |-> 1, variables |-> vars, functions |-> funcs]

VarDeclNode_new(name, type, is_array, array_length, source_line) ==
    [type |-> "VARDECL", source_line |-> source_line, name |-> name, vtype |-> type,
     is_array |-> is_array, array_length |-> array_length]

FuncDeclNode_new(name, return_type, parameters, body, source_line) ==
    [type |-> "FUNCDECL", source_line |-> source_line, name |-> name,
     return_type |-> return_type, parameters |-> parameters, body |-> body]

BlockNode_new(vars, stmts, source_line) ==
    [type |-> "BLOCK", source_line |-> source_line, variables |-> vars, statements |-> stmts]

AssignmentNode_new(location, value, source_line) ==
    [type |-> "ASSIGNMENT", source_line |-> source_line, location |-> location, value |-> value]

ConditionalNode_new(condition, if_block, else_block, source_line) ==
    [type |-> "CONDITIONAL", source_line |-> source_line, condition |-> condition,
     if_block |-> if_block, else_block |-> else_block]

WhileLoopNode_new(condition, body, source_line) ==
    [type |-> "WHILELOOP", source_line |-> source_line, condition |-> condition, body |-> body]

ReturnNode_new(value, source_line) ==
    [type |-> "RETURNSTMT", source_line |-> source_line, value |-> value]

BreakNode_new(source_line) ==
    [type |-> "BREAKSTMT", source_line |-> source_line]

ContinueNode_new(source_line) ==
    [type |-> "CONTINUESTMT", source_line |-> source_line]

BinaryOpNode_new(operator, left, right, source_line) ==
    [type |-> "BINARYOP", source_line |-> source_line, operator |-> operator,
     left |-> left, right |-> right]

UnaryOpNode_new(operator, child, source_line) ==
    [type |-> "UNARYOP", source_line |-> source_line, operator |-> operator, child |-> child]

LocationNode_new(name, index, source_line) ==
    [type |-> "LOCATION", source_line |-> source_line, name |-> name, index |-> index]

FuncCallNode_new(name, args, source_line) ==
    [type |-> "FUNCCALL", source_line |-> source_line, name |-> name, arguments |-> args]

LiteralNode_new_int(source_line) ==
    [type |-> "LITERAL", source_line |-> source_line, ltype |-> INT]

LiteralNode_new_bool(source_line) ==
    [type |-> "LITERAL", source_line |-> source_line, ltype |-> BOOL]

LiteralNode_new_string(source_line) ==
    [type |-> "LITERAL", source_line |-> source_line, ltype |-> STR]

\* a Parameter of a ParameterList (ParameterList_add_new)
Parameter_new(name, type) == [name |-> name, type |-> type]

(***************************************************************************)
(* Tree navigation.  Children lists the child nodes in the order in which  *)
(* NodeVisitor_traverse descends into them; a path is a sequence of        *)
(* positions in these lists.                                               *)
(***************************************************************************)

Children(n) ==
    CASE n.type = "PROGRAM" -> n.variables \o n.functions
      [] n.type = "FUNCDECL" -> <<n.body>>
      [] n.type = "BLOCK" -> n.variables \o n.statements
      [] n.type = "ASSIGNMENT" -> <<n.location, n.value>>
      [] n.type = "CONDITIONAL" ->
            IF IsNull(n.else_block) THEN <<n.condition, n.if_block>>
            ELSE <<n.condition, n.if_block, n.else_block>>
      [] n.type = "WHILELOOP" -> <<n.condition, n.body>>
      [] n.type = "RETURNSTMT" -> IF IsNull(n.value) THEN <<>> ELSE <<n.value>>
      [] n.type = "BINARYOP" -> <<n.left, n.right>>
      [] n.type = "UNARYOP" -> <<n.child>>
      [] n.type = "LOCATION" -> IF IsNull(n.index) THEN <<>> ELSE <<n.index>>
      [] n.type = "FUNCCALL" -> n.arguments
      [] OTHER -> <<>>

RECURSIVE NodeAt(_, _)
NodeAt(root, path) ==
    IF path = <<>> THEN root
    ELSE NodeAt(Children(root)[Head(path)], Tail(path))

RECURSIVE PathsFrom(_, _)
PathsFrom(n, path) ==
    {path} \cup UNION { PathsFrom(Children(n)[i], Append(path, i)) : i \in 1..Len(Children(n)) }

AllPaths(root) == PathsFrom(root, <<>>)

\* the path of the node that holds the node at a non-empty path
Front(path) == SubSeq(path, 1, Len(path) - 1)

(***************************************************************************)
(* Attribute store (src/ast.c).  A node's store is the linked list of its  *)
(* Attribute cells, first cell first.  A cell holds its key, its value and *)
(* the name of its destructor, "NULL" for the null function pointer.       *)
(***************************************************************************)

ASTNode_has_attribute(store, key) ==
    \E i \in 1..Len(store) : store[i].key = key

\* the value of the first cell with the key; the null pointer (0) when no
\* cell has it ("ERROR: No '...' attribute" is printed, NULL returned)
ASTNode_get_attribute(store, key) ==
    IF ASTNode_has_attribute(store, key)
    THEN store[CHOOSE i \in 1..Len(store) :
                   /\ store[i].key = key
                   /\ \A j \in 1..(i - 1) : store[j].key # key].value
    ELSE 0

\* the store after the call, when the call returns
ASTNode_set_printable_attribute(store, key, value, dtor) ==
    IF store = <<>> THEN <<[key |-> key, value |-> value, dtor |-> dtor]>>
    ELSE IF ASTNode_has_attribute(store, key)
         THEN LET i == CHOOSE k \in 1..Len(store) :
                           /\ store[k].key = key
                           /\ \A j \in 1..(k - 1) : store[j].key # key
              IN [store EXCEPT ![i].value = value, ![i].dtor = dtor]
         ELSE <<[key |-> key, value |-> value, dtor |-> dtor]>> \o store

\* a->dtor(a->value) of ASTNode_set_printable_attribute: the destructor the
\* call runs on the old value when the key is present, "none" when the key
\* is absent and nothing is destroyed
ReplacedDestructor(store, key) ==
    IF ASTNode_has_attribute(store, key)
    THEN store[CHOOSE i \in 1..Len(store) :
                   /\ store[i].key = key
                   /\ \A j \in 1..(i - 1) : store[j].key # key].dtor
    ELSE "none"

\* a call through a null function pointer is undefined: the build may stop
\* with a memory fault or carry on as if the call had returned
NullCall == {"crashed", "returned"}

ASTNode_set_attribute(store, key, value, dtor) ==
    ASTNode_set_printable_attribute(store, key, value, dtor)

ASTNode_set_int_attribute(store, key, value) ==
    ASTNode_set_printable_attribute(store, key, value, "dummy_free")

ASTNode_get_int_attribute(store, key) == ASTNode_get_attribute(store, key)

(***************************************************************************)
(* NodeVisitor_traverse (visitor.c).  The walk is the sequence of callback *)
(* invocations of one traversal: pre, the children in order, post, and for *)
(* a BinaryOp the in callback between the operands when the visitor has    *)
(* one.  A FuncCall's arguments are iterated from the list's head; heads   *)
(* gives the head position of every argument list.                         *)
(***************************************************************************)

Event(phase, path) == [phase |-> phase, node |-> path]

RECURSIVE Concat(_)
Concat(seqs) == IF seqs = <<>> THEN <<>> ELSE Head(seqs) \o Concat(Tail(seqs))

RECURSIVE NodeVisitor_traverse(_, _, _, _)
NodeVisitor_traverse(n, path, heads, has_invisit) ==
    LET kids == Children(n)
        sub(i) == NodeVisitor_traverse(kids[i], Append(path, i), heads, has_invisit)
        first == IF n.type = "FUNCCALL" THEN heads[path] ELSE 1
    IN  IF n.type = "BINARYOP"
        THEN <<Event("pre", path)>> \o sub(1)
             \o (IF has_invisit THEN <<Event("in", path)>> ELSE <<>>)
             \o sub(2) \o <<Event("post", path)>>
        ELSE <<Event("pre", path)>>
             \o Concat([k \in 1..(Len(kids) + 1 - first) |-> sub(first + k - 1)])
             \o <<Event("post", path)>>

(***************************************************************************)
(* Symbols and symbol tables (src/symbol.c)                                *)
(***************************************************************************)

\* a ParameterList: its elements, the position of head among them
\* (Len(items) + 1 when head is NULL) and the size counter
ParameterList_new == [items |-> <<>>, head |-> 1, size |-> 0]

ParameterList_add_new(list, name, type) ==
    [list EXCEPT !.items = Append(list.items, Parameter_new(name, type)),
                 !.size = list.size + 1]

RECURSIVE ParameterList_copy(_, _)
ParameterList_copy(list, params) ==
    IF params = <<>> THEN list
    ELSE ParameterList_copy(ParameterList_add_new(list, Head(params).name, Head(params).type),
                            Tail(params))

Symbol_new(name, type) ==
    [symbol_type |-> SCALAR_SYMBOL, name |-> name, type |-> type, length |-> 1,
     parameters |-> ParameterList_new]

Symbol_new_array(name, type, length) ==
    [symbol_type |-> ARRAY_SYMBOL, name |-> name, type |-> type, length |-> length,
     parameters |-> ParameterList_new]

\* Variant of Symbol_new_function that copies the parameters onto the front
\* of the new list, which reverses their order; C30 tells the two apart.
Symbol_new_function_reversed(name, return_type, parameters) ==
    [symbol_type |-> FUNCTION_SYMBOL, name |-> name, type |-> return_type, length |-> 1,
     parameters |-> [items |-> [k \in 1..Len(parameters) |->
                                   parameters[Len(parameters) + 1 - k]],
                     head |-> 1, size |-> Len(parameters)]]

\* parameters: the elements of the declaration's list, copied one by one
Symbol_new_function(name, return_type, parameters) ==
    [symbol_type |-> FUNCTION_SYMBOL, name |-> name, type |-> return_type, length |-> 1,
     parameters |-> ParameterList_copy(ParameterList_new, parameters)]

\* Variant of create_print_symbol whose function returns the type of its
\* parameter; C18 tells the two apart.
create_print_symbol_typed(name, type) ==
    Symbol_new_function(name, type, <<Parameter_new("value", type)>>)

create_print_symbol(name, type) ==
    Symbol_new_function(name, VOID, <<Parameter_new("value", type)>>)

SymbolTable_new == [local_symbols |-> <<>>, parent |-> NULL_TABLE]

SymbolTable_new_child(parent) == [local_symbols |-> <<>>, parent |-> parent]

SymbolTable_insert(table, symbol) ==
    [table EXCEPT !.local_symbols = Append(table.local_symbols, symbol)]

\* a reference to a Symbol: the table that holds it and its position there;
\* NULL_SYMBOL when the lookup fails
NULL_SYMBOL == [table |-> 0, index |-> 0]

RECURSIVE SymbolTable_lookup(_, _, _)
SymbolTable_lookup(tbls, t, name) ==
    LET syms == tbls[t].local_symbols
        hits == {i \in 1..Len(syms) : syms[i].name = name}
    IN  IF hits # {}
        THEN [table |-> t, index |-> CHOOSE i \in hits : \A j \in hits : i <= j]
        ELSE IF tbls[t].parent # NULL_TABLE
             THEN SymbolTable_lookup(tbls, tbls[t].parent, name)
             ELSE NULL_SYMBOL

\* phase 1 of lookup_symbol: up the parent attributes to the first node that
\* has a symbolTable attribute; <<0>> stands for the null pointer reached
\* when a node has no parent attribute
RECURSIVE ScopeNode(_, _)
ScopeNode(attrs, path) ==
    IF path = <<0>> THEN <<0>>
    ELSE IF ASTNode_has_attribute(attrs[path], "symbolTable") THEN path
    ELSE IF ASTNode_has_attribute(attrs[path], "parent")
         THEN ScopeNode(attrs, ASTNode_get_attribute(attrs[path], "parent"))
         ELSE <<0>>

\* Variant of lookup_symbol that skips phase 1 and searches from the table
\* of the root; C14 tells the two apart.
lookup_symbol_root(attrs, tbls, path, name) ==
    LET node == ScopeNode(attrs, <<>>)
    IN  IF node # <<0>>
        THEN SymbolTable_lookup(tbls, ASTNode_get_attribute(attrs[node], "symbolTable"), name)
        ELSE NULL_SYMBOL

lookup_symbol(attrs, tbls, path, name) ==
    LET node == ScopeNode(attrs, path)
    IN  IF node # <<0>>
        THEN SymbolTable_lookup(tbls, ASTNode_get_attribute(attrs[node], "symbolTable"), name)
        ELSE NULL_SYMBOL

\* dereference of a symbol reference
Sym(tbls, ref) == tbls[ref.table].local_symbols[ref.index]

(***************************************************************************)
(* Input programs                                                          *)
(***************************************************************************)

\* bounds of the input families
MaxRepeat == 3      \* declarations in one scope of the duplicate family
MaxCalls == 2       \* call sites in a row in the call family
MaxArgs == 2        \* parameters of a function, arguments of a call
MaxNest == 2        \* while loops inside one another in the loop family
MaxRuns == 2        \* runs of the visitors on one tree
MaxSets == 3        \* attribute set calls on one node
MaxGets == 1        \* attribute get calls on one node

\* sequences over S of length at most n
SeqsUpTo(S, n) == UNION { [1..k -> S] : k \in 0..n }

IntLit == LiteralNode_new_int(1)
BoolLit == LiteralNode_new_bool(1)
StrLit == LiteralNode_new_string(1)
Loc(name) == LocationNode_new(name, NULL, 1)
Call(name, args) == FuncCallNode_new(name, args, 1)
Block(vars, stmts) == BlockNode_new(vars, stmts, 1)
Scalar(name, type) == VarDeclNode_new(name, type, FALSE, 1, 1)
Return0 == ReturnNode_new(IntLit, 1)
Func(name, type, params, vars, stmts) ==
    FuncDeclNode_new(name, type, params, Block(vars, stmts), 1)

\* def int main() { int i; bool b; <stmts> return 0; }
Main(stmts) ==
    Func("main", INT, <<>>, <<Scalar("i", INT), Scalar("b", BOOL)>>, stmts \o <<Return0>>)

\* operands: literals, a declared int, an undeclared name, a void call
Atoms == {IntLit, BoolLit, StrLit, Loc("i"), Loc("u"), Call("print_int", <<IntLit>>)}

BinaryOps == OROP..MODOP
UnaryOps == {NEGOP, NOTOP}

Expressions ==
    Atoms
    \cup { BinaryOpNode_new(op, l, r, 1) : op \in BinaryOps, l \in Atoms, r \in Atoms }
    \cup { UnaryOpNode_new(op, c, 1) : op \in UnaryOps, c \in Atoms }
    \cup { BinaryOpNode_new(op, BinaryOpNode_new(in, IntLit, BoolLit, 1),
                            UnaryOpNode_new(un, IntLit, 1), 1) :
              op \in BinaryOps, in \in {ANDOP, EQOP, LTOP, ADDOP}, un \in UnaryOps }

\* i = <expression>;
ExpressionFamily ==
    { ProgramNode_new(<<>>, <<Main(<<AssignmentNode_new(Loc("i"), e, 1)>>)>>) :
        e \in Expressions }

\* one statement of every kind in main, with a global array g
Targets ==
    {Loc("i"), Loc("b"), Loc("u"), Loc("g"), LocationNode_new("g", IntLit, 1),
     LocationNode_new("g", BoolLit, 1), LocationNode_new("i", IntLit, 1)}

Conditions ==
    Atoms \cup {Loc("b"), BinaryOpNode_new(LTOP, IntLit, IntLit, 1),
                BinaryOpNode_new(ADDOP, IntLit, IntLit, 1)}

Statements ==
    { AssignmentNode_new(l, v, 1) : l \in Targets, v \in Atoms }
    \cup { ConditionalNode_new(c, Block(<<>>, <<>>), e, 1) :
              c \in Conditions, e \in {NULL, Block(<<>>, <<BreakNode_new(1)>>)} }
    \cup { WhileLoopNode_new(c, Block(<<>>, b), 1) :
              c \in Conditions, b \in {<<>>, <<BreakNode_new(1)>>, <<ContinueNode_new(1)>>} }
    \cup { Call(f, a) : f \in {"print_int", "print_bool", "print_str", "nf", "i", "g"},
                        a \in SeqsUpTo({IntLit, BoolLit, StrLit}, 1) }

StatementFamily ==
    { ProgramNode_new(<<VarDeclNode_new("g", INT, TRUE, 2, 1)>>, <<Main(<<st>>)>>) :
        st \in Statements }

\* break and continue in the bodies of while loops nested MaxNest deep: a
\* body is two jumps in a row, or a loop followed by a jump
Jumps == {<<>>, <<BreakNode_new(1)>>, <<ContinueNode_new(1)>>}

RECURSIVE LoopBodies(_)
LoopBodies(k) ==
    { pre \o post : pre \in Jumps, post \in Jumps }
    \cup (IF k = 0 THEN {}
          ELSE { <<WhileLoopNode_new(BoolLit, Block(<<>>, b), 1)>> \o post :
                    post \in Jumps, b \in LoopBodies(k - 1) })

LoopFamily ==
    { ProgramNode_new(<<>>, <<Main(b)>>) : b \in LoopBodies(MaxNest) }

\* up to MaxRepeat declarations of the names a and b in one scope: the program
\* scope (with and without a well-formed main), a function's block, a nested
\* block, a parameter list; and functions that share a name
PlainMain == Func("main", INT, <<>>, <<>>, <<Return0>>)
Foo == Func("foo", VOID, <<>>, <<>>, <<ReturnNode_new(NULL, 1)>>)

DeclSeqs == SeqsUpTo({Scalar("a", INT), Scalar("b", BOOL)}, MaxRepeat)
ParamSeqs == SeqsUpTo({Parameter_new("a", INT), Parameter_new("b", BOOL)}, MaxRepeat)

DuplicateFamily ==
    { ProgramNode_new(g, f) :
        g \in DeclSeqs,
        f \in {<<PlainMain>>, <<>>, <<Func("main", INT, <<Parameter_new("x", INT)>>,
                                           <<>>, <<Return0>>)>>} }
    \cup { ProgramNode_new(<<>>, <<Func("main", INT, <<>>, d, <<Return0>>)>>) : d \in DeclSeqs }
    \cup { ProgramNode_new(<<>>,
              <<Func("main", INT, <<>>, <<>>,
                     <<WhileLoopNode_new(BoolLit, Block(d, <<>>), 1), Return0>>)>>) :
              d \in DeclSeqs }
    \cup { ProgramNode_new(<<>>,
              <<Func("foo", VOID, ps, <<>>, <<ReturnNode_new(NULL, 1)>>), PlainMain>>) :
              ps \in ParamSeqs }
    \cup { ProgramNode_new(g, f) :
              g \in {<<>>, <<Scalar("main", INT)>>, <<Scalar("foo", INT)>>},
              f \in SeqsUpTo({PlainMain, Foo}, MaxRepeat) }

\* the entry point: absent, a variable, a function of any signature
MainFamily ==
    { ProgramNode_new(g, f) :
        g \in {<<>>, <<Scalar("main", INT)>>, <<Scalar("main", BOOL)>>,
               <<VarDeclNode_new("main", INT, TRUE, 2, 1)>>},
        f \in {<<>>, <<Foo>>}
              \cup { <<Func("main", INT, ps, <<>>, <<Return0>>)>> :
                        ps \in SeqsUpTo({Parameter_new("x", INT)}, 1) }
              \cup { <<Func("main", BOOL, ps, <<>>, <<ReturnNode_new(BoolLit, 1)>>)>> :
                        ps \in SeqsUpTo({Parameter_new("x", INT)}, 1) }
              \cup { <<Func("main", VOID, ps, <<>>, <<ReturnNode_new(NULL, 1)>>), Foo>> :
                        ps \in SeqsUpTo({Parameter_new("x", INT)}, 1) } }

\* up to MaxCalls calls in a row of a function of up to MaxArgs parameters.
\* The argument lists of a call are the one that fits the signature, the
\* fitting one with one argument of the other type, with its last argument
\* dropped, and with one argument more.
ParamNames == <<"p", "q", "r", "s">>

Signatures == SeqsUpTo({INT, BOOL}, MaxArgs)

Callee(sig) ==
    Func("foo", VOID, [k \in 1..Len(sig) |-> Parameter_new(ParamNames[k], sig[k])],
         <<>>, <<ReturnNode_new(NULL, 1)>>)

ArgumentLists(sig) ==
    LET fit == [k \in 1..Len(sig) |-> IF sig[k] = INT THEN IntLit ELSE BoolLit]
    IN  {fit, Append(fit, IntLit)}
        \cup { [fit EXCEPT ![k] = IF sig[k] = INT THEN BoolLit ELSE IntLit] : k \in 1..Len(sig) }
        \cup (IF sig = <<>> THEN {} ELSE {SubSeq(fit, 1, Len(sig) - 1)})

CallSites(sig) == { Call("foo", a) : a \in ArgumentLists(sig) }

\* the callee is declared after its caller, and before it for a single call
CallFamily ==
    UNION { { ProgramNode_new(<<>>, <<Main(cs), Callee(sig)>>) :
                 cs \in SeqsUpTo(CallSites(sig), MaxCalls) }
            \cup { ProgramNode_new(<<>>, <<Callee(sig), Main(cs)>>) :
                      cs \in SeqsUpTo(CallSites(sig), 1) } :
            sig \in Signatures }

\* return statements in functions of every return type
ReturnFamily ==
    { ProgramNode_new(<<>>,
        <<PlainMain,
          Func("foo", t, <<>>, <<Scalar("i", INT)>>, <<ReturnNode_new(v, 1)>>),
          Func("bar", INT, <<>>, <<>>, <<Return0>>) >>) :
        t \in {INT, BOOL, VOID},
        v \in {NULL, Call("foo", <<>>), Call("bar", <<>>), Call("nf", <<>>)} \cup Atoms }

\* variable declarations of every type and shape, global, local and nested
Declarations ==
    { VarDeclNode_new("v", t, sh[1], sh[2], 1) :
        t \in {INT, BOOL, VOID},
        sh \in {<<FALSE, 1>>, <<TRUE, -1>>, <<TRUE, 0>>, <<TRUE, 1>>, <<TRUE, 2>>} }

VarDeclFamily ==
    { ProgramNode_new(<<d>>, <<PlainMain>>) : d \in Declarations }
    \cup { ProgramNode_new(<<>>, <<Func("main", INT, <<>>, <<d>>, <<Return0>>)>>) :
              d \in Declarations }
    \cup { ProgramNode_new(<<>>,
              <<Func("main", INT, <<>>, <<>>,
                     <<ConditionalNode_new(BoolLit, Block(<<>>, <<>>), Block(<<d>>, <<>>), 1),
                       Return0>>)>>) :
              d \in Declarations }

\* a name declared in the program scope, the function's block and a nested block
ShadowFamily ==
    { ProgramNode_new(g,
        <<Func("main", INT, <<>>, l,
               <<ConditionalNode_new(BoolLit,
                    Block(n, <<AssignmentNode_new(Loc("a"), v, 1)>>), NULL, 1),
                 Return0>>)>>) :
        g \in {<<>>, <<Scalar("a", INT)>>, <<Scalar("a", BOOL)>>},
        l \in {<<>>, <<Scalar("a", INT)>>, <<Scalar("a", BOOL)>>},
        n \in {<<>>, <<Scalar("a", INT)>>, <<Scalar("a", BOOL)>>},
        v \in {IntLit, BoolLit} }

\* programs with the source lines of their text:
\*   1  def <rt> main() {
\*   2    int i;
\*   3    while (<c>) {          or   if (<c>) {
\*   4      i = <v>;
\*   5    }
\*   6    return 0;
\*   7  }
LineFamily ==
    LET Lit(t, source_line) ==
            IF t = INT THEN LiteralNode_new_int(source_line)
            ELSE LiteralNode_new_bool(source_line)
    IN
    { ProgramNode_new(<<>>,
        <<FuncDeclNode_new("main", rt, <<>>,
            BlockNode_new(<<VarDeclNode_new("i", INT, FALSE, 1, 2)>>,
               <<IF loop
                 THEN WhileLoopNode_new(Lit(c, 3),
                         BlockNode_new(<<>>,
                            <<AssignmentNode_new(LocationNode_new("i", NULL, 4), Lit(v, 4), 4)>>,
                            3), 3)
                 ELSE ConditionalNode_new(Lit(c, 3),
                         BlockNode_new(<<>>,
                            <<AssignmentNode_new(LocationNode_new("i", NULL, 4), Lit(v, 4), 4)>>,
                            3), NULL, 3),
                 ReturnNode_new(Lit(INT, 6), 6)>>, 1), 1)>>) :
        rt \in {INT, BOOL}, loop \in BOOLEAN, c \in {INT, BOOL}, v \in {INT, BOOL} }

Programs ==
    ExpressionFamily \cup StatementFamily \cup LoopFamily \cup DuplicateFamily
    \cup MainFamily \cup CallFamily \cup ReturnFamily \cup VarDeclFamily \cup ShadowFamily
    \cup LineFamily

(***************************************************************************)
(* State                                                                   *)
(***************************************************************************)

VARIABLES
    tree,            \* the AST built by the parser
    calls,           \* history: the attribute calls made on a node by its client
    decorated,       \* history: the attributes each earlier decoration of the tree left
    produced,        \* history: how each earlier run of the pipeline on the tree ended
    attributes,      \* path -> attribute store of the node
    arguments_head,  \* path -> head position of a FuncCall's argument list
    tables,          \* the SymbolTable objects allocated so far
    build_data,      \* BuildSymbolTables visitor->data: top of the scope stack
    data,            \* analysis visitor->data: the AnalysisData
    pass,            \* the visitor that is traversing the tree
    walk,            \* the callback invocations of the current traversal
    pc,              \* position of the next invocation in walk
    status           \* "running", "returned", "thrown" (longjmp) or "crashed"

vars == <<tree, calls, decorated, produced, attributes, arguments_head, tables, build_data, data, pass, walk, pc, status>>

\* calloc'ed AnalysisData with a new, empty ErrorList
AnalysisData_new ==
    [errors |-> <<>>, is_loop |-> FALSE, is_block |-> FALSE, is_func |-> FALSE,
     funcdecl_return_type |-> UNKNOWN]

Init ==
    /\ tree \in Programs
    /\ calls = <<>>
    /\ decorated = <<>>
    /\ produced = <<>>
    /\ attributes = [p \in AllPaths(tree) |-> <<>>]
    /\ arguments_head = [p \in AllPaths(tree) |-> 1]
    /\ tables = <<>>
    /\ build_data = NULL_TABLE
    /\ data = AnalysisData_new
    /\ pass = "SetParent"
    /\ walk = NodeVisitor_traverse(tree, <<>>, [p \in AllPaths(tree) |-> 1], FALSE)
    /\ pc = 1
    /\ status = "running"

\* the node of the next callback invocation and its attribute store
node == NodeAt(tree, walk[pc].node)
self == walk[pc].node

\* paths of the children of the current node, in list order
Kid(i) == Append(self, i)

\* the visitor of pass p is about to invoke its phase callback on a ty node
Visits(p, phase, ty) ==
    /\ status = "running"
    /\ pass = p
    /\ pc <= Len(walk)
    /\ walk[pc].phase = phase
    /\ node.type = ty

Return == pc' = pc + 1

(***************************************************************************)
(* Callback registration: the slots each visitor constructor fills.  Any   *)
(* other slot falls back to the visitor's default callback.                *)
(***************************************************************************)

SetParentVisitor_new ==
    { <<"pre", t>> : t \in {"PROGRAM", "FUNCDECL", "BLOCK", "ASSIGNMENT", "CONDITIONAL",
                            "WHILELOOP", "RETURNSTMT", "BINARYOP", "UNARYOP", "LOCATION",
                            "FUNCCALL"} }

CalcDepthVisitor_new == { <<"pre", "PROGRAM">> }

BuildSymbolTablesVisitor_new ==
    { <<"pre", "PROGRAM">>, <<"post", "PROGRAM">>, <<"pre", "FUNCDECL">>,
      <<"post", "FUNCDECL">>, <<"pre", "BLOCK">>, <<"post", "BLOCK">>, <<"pre", "VARDECL">> }

\* the default callback of NodeVisitor_new, invoked through PREVISIT/POSTVISIT
\* for every slot the visitor left null
do_nothing ==
    /\ status = "running"
    /\ pc <= Len(walk)
    /\ \/ pass = "SetParent" /\ <<walk[pc].phase, node.type>> \notin SetParentVisitor_new
       \/ pass = "CalcDepth" /\ walk[pc].phase = "post"
       \/ pass = "BuildSymbolTables"
            /\ <<walk[pc].phase, node.type>> \notin BuildSymbolTablesVisitor_new
    /\ Return
    /\ UNCHANGED <<tree, calls, decorated, produced, attributes, arguments_head, tables, build_data, data, pass, walk, status>>

(***************************************************************************)
(* SetParent visitor                                                       *)
(***************************************************************************)

\* ASTNode_set_attribute(child, "parent", node, NULL) on the children kids
\* When a child has a parent attribute already the call runs the
\* destructor stored with it, which is the null pointer.
SetParentOf(kids) ==
    \E outcome \in (IF \E i \in kids : ReplacedDestructor(attributes[Kid(i)], "parent") = "NULL"
                    THEN NullCall ELSE {"returned"}) :
        IF outcome = "crashed"
        THEN /\ status' = "crashed"
             /\ UNCHANGED <<attributes, pc>>
        ELSE /\ attributes' = [p \in DOMAIN attributes |->
                                  IF \E i \in kids : p = Kid(i)
                                  THEN ASTNode_set_attribute(attributes[p], "parent", self, "NULL")
                                  ELSE attributes[p]]
             /\ Return
             /\ status' = status

\* what a SetParent callback leaves alone
DecorationFrame ==
    UNCHANGED <<tree, calls, decorated, produced, arguments_head, tables, build_data, data, pass, walk>>

SetParentFrame ==
    /\ Return
    /\ UNCHANGED <<tree, calls, decorated, produced, arguments_head, tables, build_data, data, pass, walk, status>>

SetParentVisitor_visit_program ==
    /\ Visits("SetParent", "pre", "PROGRAM")
    /\ SetParentOf(1..(Len(node.variables) + Len(node.functions)))
    /\ DecorationFrame

SetParentVisitor_visit_funcdecl ==
    /\ Visits("SetParent", "pre", "FUNCDECL")
    /\ SetParentOf({1})
    /\ DecorationFrame

SetParentVisitor_visit_block ==
    /\ Visits("SetParent", "pre", "BLOCK")
    /\ SetParentOf(1..(Len(node.variables) + Len(node.statements)))
    /\ DecorationFrame

SetParentVisitor_visit_assignment ==
    /\ Visits("SetParent", "pre", "ASSIGNMENT")
    /\ SetParentOf({1, 2})
    /\ DecorationFrame

SetParentVisitor_visit_conditional ==
    /\ Visits("SetParent", "pre", "CONDITIONAL")
    /\ SetParentOf(IF IsNull(node.else_block) THEN {1, 2} ELSE {1, 2, 3})
    /\ DecorationFrame

SetParentVisitor_visit_whileloop ==
    /\ Visits("SetParent", "pre", "WHILELOOP")
    /\ SetParentOf({1, 2})
    /\ DecorationFrame

SetParentVisitor_visit_return ==
    /\ Visits("SetParent", "pre", "RETURNSTMT")
    /\ SetParentOf(IF IsNull(node.value) THEN {} ELSE {1})
    /\ DecorationFrame

SetParentVisitor_visit_binaryop ==
    /\ Visits("SetParent", "pre", "BINARYOP")
    /\ SetParentOf({1, 2})
    /\ DecorationFrame

SetParentVisitor_visit_unaryop ==
    /\ Visits("SetParent", "pre", "UNARYOP")
    /\ SetParentOf({1})
    /\ DecorationFrame

SetParentVisitor_visit_location ==
    /\ Visits("SetParent", "pre", "LOCATION")
    /\ SetParentOf(IF IsNull(node.index) THEN {} ELSE {1})
    /\ DecorationFrame

\* FOR_EACH over the argument list starts at its head
SetParentVisitor_visit_funccall ==
    /\ Visits("SetParent", "pre", "FUNCCALL")
    /\ SetParentOf(arguments_head[self]..Len(node.arguments))
    /\ DecorationFrame

(***************************************************************************)
(* CalcDepth visitor                                                       *)
(***************************************************************************)

CalcDepthVisitor_visit_program ==
    /\ Visits("CalcDepth", "pre", "PROGRAM")
    /\ attributes' = [attributes EXCEPT ![self] = ASTNode_set_int_attribute(@, "depth", 0)]
    /\ SetParentFrame

\* Variant of CalcDepthVisitor_visit_nonprogram that gives a node the depth
\* of its parent; C26 tells the two apart.
CalcDepthVisitor_visit_nonprogram_level ==
    /\ status = "running"
    /\ pass = "CalcDepth"
    /\ pc <= Len(walk)
    /\ walk[pc].phase = "pre"
    /\ node.type # "PROGRAM"
    /\ LET parent == ASTNode_get_attribute(attributes[self], "parent")
           pdepth == ASTNode_get_int_attribute(attributes[parent], "depth")
       IN  attributes' = [attributes EXCEPT
                             ![self] = ASTNode_set_int_attribute(@, "depth", pdepth)]
    /\ SetParentFrame

\* previsit_default of the CalcDepth visitor: every node but the Program
CalcDepthVisitor_visit_nonprogram ==
    /\ status = "running"
    /\ pass = "CalcDepth"
    /\ pc <= Len(walk)
    /\ walk[pc].phase = "pre"
    /\ node.type # "PROGRAM"
    /\ LET parent == ASTNode_get_attribute(attributes[self], "parent")
           pdepth == ASTNode_get_int_attribute(attributes[parent], "depth")
       IN  attributes' = [attributes EXCEPT
                             ![self] = ASTNode_set_int_attribute(@, "depth", pdepth + 1)]
    /\ SetParentFrame

(***************************************************************************)
(* BuildSymbolTables visitor (src/symbol.c)                                *)
(***************************************************************************)

RECURSIVE InsertFunctions(_, _)
InsertFunctions(table, funcs) ==
    IF funcs = <<>> THEN table
    ELSE InsertFunctions(
            SymbolTable_insert(table,
                Symbol_new_function(Head(funcs).name, Head(funcs).return_type,
                                    Head(funcs).parameters)),
            Tail(funcs))

RECURSIVE InsertParameters(_, _)
InsertParameters(table, params) ==
    IF params = <<>> THEN table
    ELSE InsertParameters(
            SymbolTable_insert(table, Symbol_new(Head(params).name, Head(params).type)),
            Tail(params))

BuildFrame ==
    /\ Return
    /\ UNCHANGED <<tree, calls, decorated, produced, arguments_head, data, pass, walk, status>>

\* attach a newly allocated table to the current node and push it
AttachTable(table) ==
    /\ tables' = Append(tables, table)
    /\ attributes' = [attributes EXCEPT ![self] =
                         ASTNode_set_printable_attribute(@, "symbolTable", Len(tables) + 1,
                                                         "SymbolTable_free")]
    /\ build_data' = Len(tables) + 1

BuildSymbolTablesVisitor_previsit_program ==
    /\ Visits("BuildSymbolTables", "pre", "PROGRAM")
    /\ AttachTable(
          InsertFunctions(
             SymbolTable_insert(
                SymbolTable_insert(
                   SymbolTable_insert(SymbolTable_new, create_print_symbol("print_int", INT)),
                   create_print_symbol("print_bool", BOOL)),
                create_print_symbol("print_str", STR)),
             node.functions))
    /\ BuildFrame

BuildSymbolTablesVisitor_previsit_funcdecl ==
    /\ Visits("BuildSymbolTables", "pre", "FUNCDECL")
    /\ AttachTable(InsertParameters(SymbolTable_new_child(build_data), node.parameters))
    /\ BuildFrame

BuildSymbolTablesVisitor_previsit_block ==
    /\ Visits("BuildSymbolTables", "pre", "BLOCK")
    /\ AttachTable(SymbolTable_new_child(build_data))
    /\ BuildFrame

BuildSymbolTablesVisitor_visit_vardecl ==
    /\ Visits("BuildSymbolTables", "pre", "VARDECL")
    /\ LET new_symbol == IF node.is_array
                         THEN Symbol_new_array(node.name, node.vtype, node.array_length)
                         ELSE Symbol_new(node.name, node.vtype)
       IN  tables' = [tables EXCEPT ![build_data] = SymbolTable_insert(@, new_symbol)]
    /\ BuildFrame
    /\ UNCHANGED <<attributes, build_data>>

\* Variant of BuildSymbolTablesVisitor_postvisit that empties the stack
\* instead of popping one scope; C23 tells the two apart.
BuildSymbolTablesVisitor_postvisit_empty ==
    /\ status = "running"
    /\ pass = "BuildSymbolTables"
    /\ pc <= Len(walk)
    /\ walk[pc].phase = "post"
    /\ node.type \in {"PROGRAM", "FUNCDECL", "BLOCK"}
    /\ build_data' = NULL_TABLE
    /\ BuildFrame
    /\ UNCHANGED <<attributes, tables>>

\* postvisit of Program, FuncDecl and Block: pop the scope stack
BuildSymbolTablesVisitor_postvisit ==
    /\ status = "running"
    /\ pass = "BuildSymbolTables"
    /\ pc <= Len(walk)
    /\ walk[pc].phase = "post"
    /\ node.type \in {"PROGRAM", "FUNCDECL", "BLOCK"}
    /\ build_data' = tables[build_data].parent
    /\ BuildFrame
    /\ UNCHANGED <<attributes, tables>>

(***************************************************************************)
(* The driver: run_analysis (tests/testsuite.c) and main (src/main.c) run  *)
(* the three decorating visitors one after the other and then analyze.     *)
(***************************************************************************)

\* NodeVisitor_traverse_and_free has returned; the next visitor starts
run_analysis ==
    /\ status = "running"
    /\ pass \in {"SetParent", "CalcDepth"}
    /\ pc > Len(walk)
    /\ pass' = IF pass = "SetParent" THEN "CalcDepth" ELSE "BuildSymbolTables"
    /\ walk' = NodeVisitor_traverse(tree, <<>>, arguments_head, FALSE)
    /\ pc' = 1
    /\ UNCHANGED <<tree, calls, decorated, produced, attributes, arguments_head, tables, build_data, data, status>>

\* the step of run_analysis between the two decorating visitors
decorate ==
    /\ pass = "SetParent"
    /\ run_analysis

\* A client that decorates a tree it has decorated before: CalcDepth has
\* returned and SetParent is started on the same tree once more.
decorate_again ==
    /\ status = "running"
    /\ pass = "CalcDepth"
    /\ pc > Len(walk)
    /\ Len(decorated) + 1 < MaxRuns
    /\ decorated' = Append(decorated, attributes)
    /\ pass' = "SetParent"
    /\ walk' = NodeVisitor_traverse(tree, <<>>, arguments_head, FALSE)
    /\ pc' = 1
    /\ UNCHANGED <<tree, calls, produced, attributes, arguments_head, tables, build_data, data, status>>

\* analyze: allocate the visitor and its AnalysisData, register the callbacks
\* (with invisit_binaryop) and start the traversal
analyze ==
    /\ status = "running"
    /\ pass = "BuildSymbolTables"
    /\ pc > Len(walk)
    /\ pass' = "Analysis"
    /\ data' = AnalysisData_new
    /\ walk' = NodeVisitor_traverse(tree, <<>>, arguments_head, TRUE)
    /\ pc' = 1
    /\ UNCHANGED <<tree, calls, decorated, produced, attributes, arguments_head, tables, build_data, status>>

\* the traversal is over: analyze frees the visitor and returns data->errors
analyze_return ==
    /\ status = "running"
    /\ pass = "Analysis"
    /\ pc > Len(walk)
    /\ status' = "returned"
    /\ UNCHANGED <<tree, calls, decorated, produced, attributes, arguments_head, tables, build_data, data, pass, walk, pc>>

(***************************************************************************)
(* The analysis visitor (src/p3-analysis.c).  A diagnostic is recorded by  *)
(* the format string that produced it, the node whose callback reported it *)
(* and that node's source line.                                            *)
(***************************************************************************)

AnalysisError(message) == [message |-> message, node |-> self, line |-> node.source_line]

\* ErrorList_printf(ERROR_LIST, ...): append to the error list
ErrorList_printf(d, message) == [d EXCEPT !.errors = Append(@, AnalysisError(message))]

GET_INFERRED_TYPE(path) == ASTNode_get_attribute(attributes[path], "type")

SET_INFERRED_TYPE(T) ==
    attributes' = [attributes EXCEPT
                      ![self] = ASTNode_set_printable_attribute(@, "type", T, "dummy_free")]

\* lookup_symbol_with_reporting: the error list after the lookup
lookup_symbol_with_reporting(d, name) ==
    IF lookup_symbol(attributes, tables, self, name) = NULL_SYMBOL
    THEN ErrorList_printf(d, "Symbol undefined")
    ELSE d

\* Error_throw_printf: longjmp to the setjmp of the driver; analyze is
\* abandoned and nothing is returned
Error_throw_printf == status' = "thrown"

\* Variant of find_ducplicat_helper that needs a name three times in the
\* table before it stops; C17 tells the two apart.
find_ducplicat_helper_thrice(path) ==
    LET table == tables[ASTNode_get_attribute(attributes[path], "symbolTable")]
        syms == table.local_symbols
    IN  \E s1 \in 1..Len(syms) :
            Cardinality({s2 \in 1..Len(syms) : syms[s1].name = syms[s2].name}) > 2

\* find_ducplicat_helper reaches Error_throw_printf: some symbol of the
\* node's table is met a second time in the inner loop
find_ducplicat_helper(path) ==
    LET table == tables[ASTNode_get_attribute(attributes[path], "symbolTable")]
        syms == table.local_symbols
    IN  \E s1 \in 1..Len(syms) :
            Cardinality({s2 \in 1..Len(syms) : syms[s1].name = syms[s2].name}) > 1

\* what a callback that only reports leaves alone
ReportFrame ==
    /\ Return
    /\ UNCHANGED <<tree, calls, decorated, produced, attributes, arguments_head, tables, build_data, pass, walk, status>>

\* what a callback that only decorates its node leaves alone
TypeFrame ==
    /\ Return
    /\ UNCHANGED <<tree, calls, decorated, produced, arguments_head, tables, build_data, pass, walk, status>>

\* a callback with an empty body
EmptyBody ==
    /\ Return
    /\ UNCHANGED <<tree, calls, decorated, produced, attributes, arguments_head, tables, build_data, data, pass, walk, status>>

\* Variant of Analysis_previsit_program that lets a main of one parameter
\* pass (size > 1 for size > 0); C9 tells the two apart.
Analysis_previsit_program_size1 ==
    /\ Visits("Analysis", "pre", "PROGRAM")
    /\ LET main == lookup_symbol(attributes, tables, self, "main")
       IN  IF main = NULL_SYMBOL
           THEN /\ data' = ErrorList_printf(data, "Program does not contain a 'main' function")
                /\ ReportFrame
           ELSE IF Sym(tables, main).symbol_type # FUNCTION_SYMBOL
           THEN /\ data' = ErrorList_printf(data, "Program does not contain a 'main' function")
                /\ ReportFrame
           ELSE IF Sym(tables, main).parameters.size > 1
           THEN /\ data' = ErrorList_printf(data, "'main' must take no parameters")
                /\ ReportFrame
           ELSE IF find_ducplicat_helper(self)
           THEN /\ Error_throw_printf
                /\ UNCHANGED <<tree, calls, decorated, produced, attributes, arguments_head, tables, build_data, data,
                               pass, walk, pc>>
           ELSE /\ data' = data
                /\ ReportFrame

Analysis_previsit_program ==
    /\ Visits("Analysis", "pre", "PROGRAM")
    /\ LET main == lookup_symbol(attributes, tables, self, "main")
       IN  IF main = NULL_SYMBOL
           THEN /\ data' = ErrorList_printf(data, "Program does not contain a 'main' function")
                /\ ReportFrame
           ELSE IF Sym(tables, main).symbol_type # FUNCTION_SYMBOL
           THEN /\ data' = ErrorList_printf(data, "Program does not contain a 'main' function")
                /\ ReportFrame
           ELSE IF Sym(tables, main).parameters.size > 0
           THEN /\ data' = ErrorList_printf(data, "'main' must take no parameters")
                /\ ReportFrame
           ELSE IF find_ducplicat_helper(self)
           THEN /\ Error_throw_printf
                /\ UNCHANGED <<tree, calls, decorated, produced, attributes, arguments_head, tables, build_data, data,
                               pass, walk, pc>>
           ELSE /\ data' = data
                /\ ReportFrame

Analysis_postvisit_program ==
    /\ Visits("Analysis", "post", "PROGRAM")
    /\ LET main == lookup_symbol(attributes, tables, self, "main")
       IN  data' = IF main # NULL_SYMBOL /\ Sym(tables, main).type # INT
                   THEN ErrorList_printf(data, "Program 'main' function must return an int")
                   ELSE data
    /\ ReportFrame

Analysis_previsit_vardecl ==
    /\ Visits("Analysis", "pre", "VARDECL")
    /\ SET_INFERRED_TYPE(node.vtype)
    /\ data' = data
    /\ TypeFrame

\* Variant of Analysis_postvisit_vardecl that lets an array of length 0 pass
\* (array_length < 0 for array_length <= 0); C13 tells the two apart.
Analysis_postvisit_vardecl_length0 ==
    /\ Visits("Analysis", "post", "VARDECL")
    /\ data' = IF GET_INFERRED_TYPE(self) = VOID
               THEN ErrorList_printf(data, "Void variable")
               ELSE IF node.is_array
               THEN IF data.is_block \/ data.is_func
                    THEN ErrorList_printf(data, "Local variable cannot be an array")
                    ELSE IF node.array_length < 0
                    THEN ErrorList_printf(data, "Array length must be greater than 0")
                    ELSE data
               ELSE data
    /\ ReportFrame

Analysis_postvisit_vardecl ==
    /\ Visits("Analysis", "post", "VARDECL")
    /\ data' = IF GET_INFERRED_TYPE(self) = VOID
               THEN ErrorList_printf(data, "Void variable")
               ELSE IF node.is_array
               THEN IF data.is_block \/ data.is_func
                    THEN ErrorList_printf(data, "Local variable cannot be an array")
                    ELSE IF node.array_length <= 0
                    THEN ErrorList_printf(data, "Array length must be greater than 0")
                    ELSE data
               ELSE data
    /\ ReportFrame

Analysis_previsit_funcdecl ==
    /\ Visits("Analysis", "pre", "FUNCDECL")
    /\ SET_INFERRED_TYPE(node.return_type)
    /\ data' = [data EXCEPT !.funcdecl_return_type = node.return_type, !.is_func = TRUE]
    /\ TypeFrame

Analysis_postvisit_funcdecl ==
    /\ Visits("Analysis", "post", "FUNCDECL")
    /\ data' = [data EXCEPT !.is_func = FALSE]
    /\ IF find_ducplicat_helper(self)
       THEN /\ Error_throw_printf
            /\ UNCHANGED <<tree, calls, decorated, produced, attributes, arguments_head, tables, build_data, pass, walk, pc>>
       ELSE ReportFrame

Analysis_previsit_block ==
    /\ Visits("Analysis", "pre", "BLOCK")
    /\ data' = [data EXCEPT !.is_block = TRUE]
    /\ ReportFrame

Analysis_postvisit_block ==
    /\ Visits("Analysis", "post", "BLOCK")
    /\ data' = [data EXCEPT !.is_block = FALSE]
    /\ IF find_ducplicat_helper(self)
       THEN /\ Error_throw_printf
            /\ UNCHANGED <<tree, calls, decorated, produced, attributes, arguments_head, tables, build_data, pass, walk, pc>>
       ELSE ReportFrame

Analysis_previsit_assignment ==
    /\ Visits("Analysis", "pre", "ASSIGNMENT")
    /\ EmptyBody

\* Variant of Analysis_postvisit_assignment that reports only a value that
\* is not Int (right_type != INT for left_type != right_type); C11 tells
\* the two apart.
Analysis_postvisit_assignment_int ==
    /\ Visits("Analysis", "post", "ASSIGNMENT")
    /\ LET left_type == GET_INFERRED_TYPE(Kid(1))
           right_type == GET_INFERRED_TYPE(Kid(2))
       IN  data' = IF right_type # INT
                   THEN ErrorList_printf(data, "Expected %s type but type was %s")
                   ELSE data
    /\ ReportFrame

Analysis_postvisit_assignment ==
    /\ Visits("Analysis", "post", "ASSIGNMENT")
    /\ LET left_type == GET_INFERRED_TYPE(Kid(1))
           right_type == GET_INFERRED_TYPE(Kid(2))
       IN  data' = IF left_type # right_type
                   THEN ErrorList_printf(data, "Expected %s type but type was %s")
                   ELSE data
    /\ ReportFrame

Analysis_previsit_conditional ==
    /\ Visits("Analysis", "pre", "CONDITIONAL")
    /\ EmptyBody

\* Variant of Analysis_postvisit_conditional that lets an Int condition pass
\* (cond_type > BOOL for cond_type != BOOL); C12 tells the two apart.
Analysis_postvisit_conditional_int ==
    /\ Visits("Analysis", "post", "CONDITIONAL")
    /\ LET cond_type == GET_INFERRED_TYPE(Kid(1))
       IN  data' = IF cond_type > BOOL
                   THEN ErrorList_printf(data, "Conditional type was %s, expected bool")
                   ELSE data
    /\ ReportFrame

Analysis_postvisit_conditional ==
    /\ Visits("Analysis", "post", "CONDITIONAL")
    /\ LET cond_type == GET_INFERRED_TYPE(Kid(1))
       IN  data' = IF cond_type # BOOL
                   THEN ErrorList_printf(data, "Conditional type was %s, expected bool")
                   ELSE data
    /\ ReportFrame

Analysis_previsit_while_loop ==
    /\ Visits("Analysis", "pre", "WHILELOOP")
    /\ data' = [data EXCEPT !.is_loop = TRUE]
    /\ ReportFrame

Analysis_postvisit_while_loop ==
    /\ Visits("Analysis", "post", "WHILELOOP")
    /\ LET cond_type == GET_INFERRED_TYPE(Kid(1))
           d == [data EXCEPT !.is_loop = FALSE]
       IN  data' = IF cond_type # BOOL
                   THEN ErrorList_printf(d, "Conditional type was %s, expected bool")
                   ELSE d
    /\ ReportFrame

Analysis_previsit_return ==
    /\ Visits("Analysis", "pre", "RETURNSTMT")
    /\ EmptyBody

Analysis_postvisit_return ==
    /\ Visits("Analysis", "post", "RETURNSTMT")
    /\ data' =
         IF IsNull(node.value) THEN data
         ELSE IF /\ node.value.type = "LOCATION"
                 /\ lookup_symbol(attributes, tables, self, node.value.name) = NULL_SYMBOL
         THEN data
         ELSE LET infer_return_value == GET_INFERRED_TYPE(Kid(1))
              IN  IF /\ infer_return_value # 0
                     /\ data.funcdecl_return_type # infer_return_value
                  THEN ErrorList_printf(data, "Invalid return type")
                  ELSE data
    /\ ReportFrame

Analysis_previsit_break ==
    /\ Visits("Analysis", "pre", "BREAKSTMT")
    /\ data' = IF ~data.is_loop
               THEN ErrorList_printf(data, "Break statement should be inside a while loop.")
               ELSE data
    /\ ReportFrame

Analysis_postvisit_break ==
    /\ Visits("Analysis", "post", "BREAKSTMT")
    /\ EmptyBody

Analysis_previsit_continue ==
    /\ Visits("Analysis", "pre", "CONTINUESTMT")
    /\ IF ~data.is_loop
       THEN /\ Error_throw_printf
            /\ UNCHANGED <<tree, calls, decorated, produced, attributes, arguments_head, tables, build_data, data,
                           pass, walk, pc>>
       ELSE EmptyBody

Analysis_postvisit_continue ==
    /\ Visits("Analysis", "post", "CONTINUESTMT")
    /\ EmptyBody

\* Variant of Analysis_previsit_binop whose Bool range ends one operator
\* early (binop_type < 7 for binop_type < 8), so that > is typed Int.
Analysis_previsit_binop_short ==
    /\ Visits("Analysis", "pre", "BINARYOP")
    /\ LET binop_type == node.operator
       IN  IF binop_type >= 0 /\ binop_type < 7
           THEN SET_INFERRED_TYPE(BOOL)
           ELSE SET_INFERRED_TYPE(INT)
    /\ data' = data
    /\ TypeFrame

Analysis_previsit_binop ==
    /\ Visits("Analysis", "pre", "BINARYOP")
    /\ LET binop_type == node.operator
       IN  IF binop_type >= 0 /\ binop_type < 8
           THEN SET_INFERRED_TYPE(BOOL)
           ELSE SET_INFERRED_TYPE(INT)
    /\ data' = data
    /\ TypeFrame

Analysis_invisit_binop ==
    /\ Visits("Analysis", "in", "BINARYOP")
    /\ EmptyBody

\* Variant of Analysis_postvisit_binop whose Int rule starts one operator
\* late (binop_type > 4 for binop_type > 3), so that < is never checked;
\* C10 tells the two apart.
Analysis_postvisit_binop_gt4 ==
    /\ Visits("Analysis", "post", "BINARYOP")
    /\ LET binop_type == node.operator
           left_type == GET_INFERRED_TYPE(Kid(1))
           right_type == GET_INFERRED_TYPE(Kid(2))
       IN  data' =
             IF (binop_type > 4) /\ (binop_type < 13)
             THEN IF left_type # INT \/ right_type # INT
                  THEN ErrorList_printf(data, "Cannot use operator %s on type %s and %s")
                  ELSE data
             ELSE IF (binop_type = 2) \/ (binop_type = 3)
             THEN IF left_type # right_type
                  THEN ErrorList_printf(data, "Cannot use operator %s on type %s and %s")
                  ELSE data
             ELSE IF (binop_type = 0) \/ (binop_type = 1)
             THEN IF left_type # BOOL \/ right_type # BOOL
                  THEN ErrorList_printf(data, "Cannot use operator %s on type %s and %s")
                  ELSE data
             ELSE data
    /\ ReportFrame

Analysis_postvisit_binop ==
    /\ Visits("Analysis", "post", "BINARYOP")
    /\ LET binop_type == node.operator
           left_type == GET_INFERRED_TYPE(Kid(1))
           right_type == GET_INFERRED_TYPE(Kid(2))
       IN  data' =
             IF (binop_type > 3) /\ (binop_type < 13)
             THEN IF left_type # INT \/ right_type # INT
                  THEN ErrorList_printf(data, "Cannot use operator %s on type %s and %s")
                  ELSE data
             ELSE IF (binop_type = 2) \/ (binop_type = 3)
             THEN IF left_type # right_type
                  THEN ErrorList_printf(data, "Cannot use operator %s on type %s and %s")
                  ELSE data
             ELSE IF (binop_type = 0) \/ (binop_type = 1)
             THEN IF left_type # BOOL \/ right_type # BOOL
                  THEN ErrorList_printf(data, "Cannot use operator %s on type %s and %s")
                  ELSE data
             ELSE data
    /\ ReportFrame

Analysis_previsit_unop ==
    /\ Visits("Analysis", "pre", "UNARYOP")
    /\ LET unop == node.operator
       IN  IF unop = 0 THEN SET_INFERRED_TYPE(INT) ELSE SET_INFERRED_TYPE(BOOL)
    /\ data' = data
    /\ TypeFrame

Analysis_postvisit_unop ==
    /\ Visits("Analysis", "post", "UNARYOP")
    /\ LET actual_type == GET_INFERRED_TYPE(Kid(1))
           inferred_type == GET_INFERRED_TYPE(self)
       IN  data' = IF actual_type # inferred_type
                   THEN ErrorList_printf(data, "Type mismatch expected %s was %s")
                   ELSE data
    /\ ReportFrame

Analysis_previsit_location ==
    /\ Visits("Analysis", "pre", "LOCATION")
    /\ LET sym == lookup_symbol(attributes, tables, self, node.name)
       IN  /\ data' = lookup_symbol_with_reporting(data, node.name)
           /\ IF sym # NULL_SYMBOL
              THEN SET_INFERRED_TYPE(Sym(tables, sym).type)
              ELSE attributes' = attributes
    /\ TypeFrame

\* Variant of Analysis_postvisit_location that accepts a Bool index in place
\* of an Int one; C28 tells the two apart.
Analysis_postvisit_location_bool ==
    /\ Visits("Analysis", "post", "LOCATION")
    /\ LET sym == lookup_symbol(attributes, tables, self, node.name)
       IN  data' =
             IF sym = NULL_SYMBOL THEN data
             ELSE IF Sym(tables, sym).symbol_type = ARRAY_SYMBOL /\ IsNull(node.index)
             THEN ErrorList_printf(data, "Expected array index")
             ELSE IF /\ Sym(tables, sym).symbol_type = ARRAY_SYMBOL
                     /\ GET_INFERRED_TYPE(Kid(1)) # BOOL
             THEN ErrorList_printf(data, "Array index must be an integer")
             ELSE data
    /\ ReportFrame

Analysis_postvisit_location ==
    /\ Visits("Analysis", "post", "LOCATION")
    /\ LET sym == lookup_symbol(attributes, tables, self, node.name)
       IN  data' =
             IF sym = NULL_SYMBOL THEN data
             ELSE IF Sym(tables, sym).symbol_type = ARRAY_SYMBOL /\ IsNull(node.index)
             THEN ErrorList_printf(data, "Expected array index")
             ELSE IF /\ Sym(tables, sym).symbol_type = ARRAY_SYMBOL
                     /\ GET_INFERRED_TYPE(Kid(1)) # INT
             THEN ErrorList_printf(data, "Array index must be an integer")
             ELSE data
    /\ ReportFrame

\* Variant of Analysis_previsit_funcall that resolves the name and leaves the
\* node without a type; C8 tells the two apart.
Analysis_previsit_funcall_untyped ==
    /\ Visits("Analysis", "pre", "FUNCCALL")
    /\ data' = lookup_symbol_with_reporting(data, node.name)
    /\ attributes' = attributes
    /\ TypeFrame

Analysis_previsit_funcall ==
    /\ Visits("Analysis", "pre", "FUNCCALL")
    /\ LET sym == lookup_symbol(attributes, tables, self, node.name)
       IN  /\ data' = lookup_symbol_with_reporting(data, node.name)
           /\ IF sym # NULL_SYMBOL
              THEN SET_INFERRED_TYPE(Sym(tables, sym).type)
              ELSE attributes' = attributes
    /\ TypeFrame

\* The argument loop of Analysis_postvisit_funcall from iteration i on, with
\* sym->parameters->head at position h and node->funccall.arguments->head at
\* position a: how the loop ends and where the two heads are then.
\*   "done"       the loop ran to i = size
\*   "mismatch"   a type differed: report and return at once
\*   "null"       sym->parameters->head is NULL and is dereferenced
RECURSIVE ArgumentLoop(_, _, _, _, _)
ArgumentLoop(i, h, a, parameters, argtype) ==
    IF ~(i < parameters.size) THEN [end |-> "done", h |-> h, a |-> a]
    ELSE IF h > Len(parameters.items) THEN [end |-> "null", h |-> h, a |-> a]
    ELSE IF parameters.items[h].type # argtype[a] THEN [end |-> "mismatch", h |-> h, a |-> a]
    ELSE ArgumentLoop(i + 1, h + 1, a + 1, parameters, argtype)

\* what the build may do when the loop dereferences the null head: stop with
\* a memory fault, or read a type that differs, or one that happens to agree
\* through the remaining iterations
NullDereference == {"crashed", "mismatch", "done"}

Analysis_postvisit_funcall ==
    /\ Visits("Analysis", "post", "FUNCCALL")
    /\ LET sym == lookup_symbol(attributes, tables, self, node.name)
           d == lookup_symbol_with_reporting(data, node.name)
       IN  IF sym = NULL_SYMBOL
           THEN /\ data' = d
                /\ ReportFrame
           ELSE
           LET parameters == Sym(tables, sym).parameters
               head == parameters.head
               argtype == [k \in 1..Len(node.arguments) |-> GET_INFERRED_TYPE(Kid(k))]
               loop == ArgumentLoop(0, head, arguments_head[self], parameters, argtype)
               SetHeads(h, a) ==
                   /\ tables' = [tables EXCEPT
                          ![sym.table].local_symbols[sym.index].parameters.head = h]
                   /\ arguments_head' = [arguments_head EXCEPT ![self] = a]
               Rest == /\ Return
                       /\ UNCHANGED <<tree, calls, decorated, produced, attributes, build_data, pass, walk>>
           IN  IF parameters.size # Len(node.arguments)
               THEN /\ data' = ErrorList_printf(d, "Incorrect number of arguments")
                    /\ ReportFrame
               ELSE \E end \in (IF loop.end = "null" THEN NullDereference ELSE {loop.end}) :
                      IF end = "crashed"
                      THEN /\ status' = "crashed"
                           /\ UNCHANGED <<tree, calls, decorated, produced, attributes, arguments_head, tables, build_data,
                                          data, pass, walk, pc>>
                      ELSE IF end = "mismatch"
                      THEN /\ data' = ErrorList_printf(d, "Expected type %s but got type %s")
                           /\ SetHeads(loop.h, loop.a)
                           /\ status' = status
                           /\ Rest
                      ELSE /\ data' = d
                           /\ SetHeads(head, loop.a)
                           /\ status' = status
                           /\ Rest

Analysis_previsit_literal ==
    /\ Visits("Analysis", "pre", "LITERAL")
    /\ SET_INFERRED_TYPE(node.ltype)
    /\ data' = data
    /\ TypeFrame

Analysis_postvisit_literal ==
    /\ Visits("Analysis", "post", "LITERAL")
    /\ EmptyBody

(***************************************************************************)
(* Specification                                                           *)
(***************************************************************************)

SetParentVisitor ==
    \/ SetParentVisitor_visit_program
    \/ SetParentVisitor_visit_funcdecl
    \/ SetParentVisitor_visit_block
    \/ SetParentVisitor_visit_assignment
    \/ SetParentVisitor_visit_conditional
    \/ SetParentVisitor_visit_whileloop
    \/ SetParentVisitor_visit_return
    \/ SetParentVisitor_visit_binaryop
    \/ SetParentVisitor_visit_unaryop
    \/ SetParentVisitor_visit_location
    \/ SetParentVisitor_visit_funccall

CalcDepthVisitor ==
    \/ CalcDepthVisitor_visit_program
    \/ CalcDepthVisitor_visit_nonprogram

BuildSymbolTablesVisitor ==
    \/ BuildSymbolTablesVisitor_previsit_program
    \/ BuildSymbolTablesVisitor_previsit_funcdecl
    \/ BuildSymbolTablesVisitor_previsit_block
    \/ BuildSymbolTablesVisitor_visit_vardecl
    \/ BuildSymbolTablesVisitor_postvisit

AnalysisVisitor ==
    \/ Analysis_previsit_program
    \/ Analysis_postvisit_program
    \/ Analysis_previsit_vardecl
    \/ Analysis_postvisit_vardecl
    \/ Analysis_previsit_funcdecl
    \/ Analysis_postvisit_funcdecl
    \/ Analysis_previsit_block
    \/ Analysis_postvisit_block
    \/ Analysis_previsit_assignment
    \/ Analysis_postvisit_assignment
    \/ Analysis_previsit_conditional
    \/ Analysis_postvisit_conditional
    \/ Analysis_previsit_while_loop
    \/ Analysis_postvisit_while_loop
    \/ Analysis_previsit_return
    \/ Analysis_postvisit_return
    \/ Analysis_previsit_break
    \/ Analysis_postvisit_break
    \/ Analysis_previsit_continue
    \/ Analysis_postvisit_continue
    \/ Analysis_previsit_binop
    \/ Analysis_invisit_binop
    \/ Analysis_postvisit_binop
    \/ Analysis_previsit_unop
    \/ Analysis_postvisit_unop
    \/ Analysis_previsit_location
    \/ Analysis_postvisit_location
    \/ Analysis_previsit_funcall
    \/ Analysis_postvisit_funcall
    \/ Analysis_previsit_literal
    \/ Analysis_postvisit_literal

Next ==
    \/ do_nothing
    \/ SetParentVisitor
    \/ CalcDepthVisitor
    \/ BuildSymbolTablesVisitor
    \/ run_analysis
    \/ analyze
    \/ AnalysisVisitor
    \/ analyze_return

Spec == Init /\ [][Next]_vars

\* A client that runs the whole pipeline once more on a fresh tree identical
\* to the one of the run that has just ended: every attribute, list head and
\* table is as the parser and the constructors leave them.
run_again ==
    /\ status # "running"
    /\ Len(produced) + 1 < MaxRuns
    /\ produced' = Append(produced, [status |-> status, errors |-> data.errors])
    /\ attributes' = [p \in AllPaths(tree) |-> <<>>]
    /\ arguments_head' = [p \in AllPaths(tree) |-> 1]
    /\ tables' = <<>>
    /\ build_data' = NULL_TABLE
    /\ data' = AnalysisData_new
    /\ pass' = "SetParent"
    /\ walk' = NodeVisitor_traverse(tree, <<>>, [p \in AllPaths(tree) |-> 1], FALSE)
    /\ pc' = 1
    /\ status' = "running"
    /\ UNCHANGED <<tree, calls, decorated>>

\* the pipeline run up to MaxRuns times, each time on a fresh copy of the tree
NextAgain ==
    \/ Next
    \/ run_again

SpecAgain == Init /\ [][NextAgain]_vars

\* the two decorating visitors alone, run up to MaxRuns times on one tree
NextTwice ==
    \/ do_nothing
    \/ SetParentVisitor
    \/ CalcDepthVisitor
    \/ decorate
    \/ decorate_again

SpecTwice == Init /\ [][NextTwice]_vars

(***************************************************************************)
(* A client of the attribute store alone (src/ast.c): a node from          *)
(* ASTNode_new, any sequence of set and get calls on it, then ASTNode_free.*)
(* calls records each set and get with its arguments or result, and each   *)
(* invocation of a destructor with the value it is handed.  Every set      *)
(* passes a fresh value.                                                   *)
(***************************************************************************)

Keys == {"parent", "symbolTable"}
Destructors == {"NULL", "dummy_free", "SymbolTable_free"}

Made(op, key, value, dtor) == [op |-> op, key |-> key, value |-> value, dtor |-> dtor]

CallsOf(op) == { i \in DOMAIN calls : calls[i].op = op }

InitAttributes ==
    /\ tree = ProgramNode_new(<<>>, <<>>)
    /\ calls = <<>>
    /\ decorated = <<>>
    /\ produced = <<>>
    /\ attributes = [p \in {<<>>} |-> <<>>]
    /\ arguments_head = [p \in {<<>>} |-> 1]
    /\ tables = <<>>
    /\ build_data = NULL_TABLE
    /\ data = AnalysisData_new
    /\ pass = "Attributes"
    /\ walk = <<>>
    /\ pc = 1
    /\ status = "running"

AttributesFrame ==
    UNCHANGED <<tree, decorated, produced, arguments_head, tables, build_data, data, pass, walk, pc>>

\* one call of ASTNode_set_printable_attribute on the node: a present key has
\* the stored destructor run on the old value before the cell is overwritten
set_printable_attribute ==
    /\ pass = "Attributes"
    /\ status = "running"
    /\ Cardinality(CallsOf("set")) < MaxSets
    /\ \E key \in Keys, dtor \in Destructors :
         LET value == Cardinality(CallsOf("set")) + 1
             store == attributes[<<>>]
             replaced == ReplacedDestructor(store, key)
             set == Made("set", key, value, dtor)
         IN  \E outcome \in (IF replaced = "NULL" THEN NullCall ELSE {"returned"}) :
                IF outcome = "crashed"
                THEN /\ status' = "crashed"
                     /\ calls' = Append(calls, set)
                     /\ attributes' = attributes
                ELSE /\ status' = status
                     /\ calls' = calls \o <<set>> \o
                           (IF replaced \in {"none", "NULL"} THEN <<>>
                            ELSE <<Made("dtor", key, ASTNode_get_attribute(store, key),
                                        replaced)>>)
                     /\ attributes' = [attributes EXCEPT
                           ![<<>>] = ASTNode_set_printable_attribute(store, key, value, dtor)]
    /\ AttributesFrame

\* one call of ASTNode_get_attribute on the node
get_attribute ==
    /\ pass = "Attributes"
    /\ status = "running"
    /\ Cardinality(CallsOf("get")) < MaxGets
    /\ \E key \in Keys :
         calls' = Append(calls, Made("get", key,
                                     ASTNode_get_attribute(attributes[<<>>], key), "none"))
    /\ attributes' = attributes
    /\ status' = status
    /\ AttributesFrame

\* the destructor invocations of ASTNode_free on the cells of store, in list
\* order: a cell with a null destructor is freed without a call
RECURSIVE FreeAttributes(_)
FreeAttributes(store) ==
    IF store = <<>> THEN <<>>
    ELSE (IF Head(store).dtor # "NULL"
          THEN <<Made("dtor", Head(store).key, Head(store).value, Head(store).dtor)>>
          ELSE <<>>) \o FreeAttributes(Tail(store))

ASTNode_free ==
    /\ pass = "Attributes"
    /\ status = "running"
    /\ calls' = calls \o FreeAttributes(attributes[<<>>])
    /\ attributes' = [attributes EXCEPT ![<<>>] = <<>>]
    /\ status' = "freed"
    /\ AttributesFrame

NextAttributes ==
    \/ set_printable_attribute
    \/ get_attribute
    \/ ASTNode_free

SpecAttributes == InitAttributes /\ [][NextAttributes]_vars

(***************************************************************************)
(* Properties.  Vocabulary: the nodes of given kinds, the diagnostics of   *)
(* the error list reported at a node, the constructs that enclose a node,  *)
(* and the rules of the language on one node.                              *)
(***************************************************************************)

NodesOfType(T) == { p \in AllPaths(tree) : NodeAt(tree, p).type \in T }

Diagnostics(p, M) ==
    { k \in DOMAIN data.errors : data.errors[k].node = p /\ data.errors[k].message \in M }

EnclosingLoop(p) ==
    \E k \in 0..(Len(p) - 1) : NodeAt(tree, SubSeq(p, 1, k)).type = "WHILELOOP"

EnclosingFunction(p) ==
    NodeAt(tree, SubSeq(p, 1, CHOOSE k \in 0..Len(p) :
                                  NodeAt(tree, SubSeq(p, 1, k)).type = "FUNCDECL"))

Resolves(p) == lookup_symbol(attributes, tables, p, NodeAt(tree, p).name)

MainSymbol == lookup_symbol(attributes, tables, <<>>, "main")

EntryPointMessages ==
    {"Program does not contain a 'main' function", "'main' must take no parameters",
     "Program 'main' function must return an int"}

ControlFlowMessages ==
    {"Break statement should be inside a while loop.",
     "Continue statement should be inside a while loop."}

CallSiteMessages == {"Incorrect number of arguments", "Expected type %s but got type %s"}

OperandMessages ==
    {"Cannot use operator %s on type %s and %s", "Type mismatch expected %s was %s"}

\* no main, main is not a function, main has a parameter, main is not Int
BadMain ==
    \/ MainSymbol = NULL_SYMBOL
    \/ Sym(tables, MainSymbol).symbol_type # FUNCTION_SYMBOL
    \/ Len(Sym(tables, MainSymbol).parameters.items) > 0
    \/ Sym(tables, MainSymbol).type # INT

\* the call at p names a function
CallsFunction(p) ==
    Resolves(p) # NULL_SYMBOL /\ Sym(tables, Resolves(p)).symbol_type = FUNCTION_SYMBOL

\* the arguments of the call at p do not fit the parameters of its function
CallSiteMismatch(p) ==
    LET params == Sym(tables, Resolves(p)).parameters.items
        args == NodeAt(tree, p).arguments
    IN  \/ Len(args) # Len(params)
        \/ \E i \in 1..Len(args) : GET_INFERRED_TYPE(Append(p, i)) # params[i].type

\* the return at p does not fit the return type of its function
ReturnMismatch(p) ==
    IF IsNull(NodeAt(tree, p).value)
    THEN EnclosingFunction(p).return_type # VOID
    ELSE GET_INFERRED_TYPE(Append(p, 1)) # EnclosingFunction(p).return_type

\* the operands of the operator at p break the operator's rule
OperandRuleViolated(p) ==
    LET n == NodeAt(tree, p)
        left == GET_INFERRED_TYPE(Append(p, 1))
        right == GET_INFERRED_TYPE(Append(p, 2))
    IN  IF n.type = "UNARYOP"
        THEN IF n.operator = NEGOP THEN left # INT ELSE left # BOOL
        ELSE IF n.operator \in {OROP, ANDOP} THEN ~(left = BOOL /\ right = BOOL)
        ELSE IF n.operator \in {EQOP, NEQOP} THEN left # right
        ELSE ~(left = INT /\ right = INT)

\* the scopes of the tree and the names that occur more than once in a
\* scope's local symbol list
Scopes == { p \in AllPaths(tree) : ASTNode_has_attribute(attributes[p], "symbolTable") }

Repeated(p) ==
    LET syms == tables[ASTNode_get_attribute(attributes[p], "symbolTable")].local_symbols
    IN  { syms[k].name : k \in { i \in DOMAIN syms :
                                   \E j \in DOMAIN syms : j # i /\ syms[j].name = syms[i].name } }

\* the declaration at p is void, or an array that is local or has no length
BadDeclaration(p) ==
    LET n == NodeAt(tree, p)
    IN  \/ n.vtype = VOID
        \/ n.is_array /\ (Len(p) > 1 \/ n.array_length <= 0)

\* the location at p names an array and has no index or an index not Int
BadIndex(p) ==
    /\ Resolves(p) # NULL_SYMBOL
    /\ Sym(tables, Resolves(p)).symbol_type = ARRAY_SYMBOL
    /\ \/ IsNull(NodeAt(tree, p).index)
       \/ GET_INFERRED_TYPE(Append(p, 1)) # INT

\* the tree holds a violation of the error taxonomy: entry point,
\* declaration, resolution, type, control flow, call site, indexing
HasViolation ==
    \/ BadMain
    \/ \E p \in Scopes : Repeated(p) # {}
    \/ \E p \in NodesOfType({"VARDECL"}) : BadDeclaration(p)
    \/ \E p \in NodesOfType({"LOCATION", "FUNCCALL"}) : Resolves(p) = NULL_SYMBOL
    \/ \E p \in NodesOfType({"BINARYOP", "UNARYOP"}) : OperandRuleViolated(p)
    \/ \E p \in NodesOfType({"ASSIGNMENT"}) :
          GET_INFERRED_TYPE(Append(p, 1)) # GET_INFERRED_TYPE(Append(p, 2))
    \/ \E p \in NodesOfType({"CONDITIONAL", "WHILELOOP"}) : GET_INFERRED_TYPE(Append(p, 1)) # BOOL
    \/ \E p \in NodesOfType({"RETURNSTMT"}) : ReturnMismatch(p)
    \/ \E p \in NodesOfType({"BREAKSTMT", "CONTINUESTMT"}) : ~EnclosingLoop(p)
    \/ \E p \in NodesOfType({"FUNCCALL"}) :
          Resolves(p) # NULL_SYMBOL /\ (~CallsFunction(p) \/ CallSiteMismatch(p))
    \/ \E p \in NodesOfType({"LOCATION"}) : BadIndex(p)

\* C1: analyze returns an empty list exactly when the tree holds no
\* violation of the error taxonomy.
C1_EmptyIffValid ==
    status = "returned" => (data.errors = <<>> <=> ~HasViolation)

\* C2: analyze never takes a non-local exit: every violation, a duplicate
\* name and a continue outside a loop included, appends a diagnostic, the
\* traversal goes on and the list is returned.
C2_NoNonLocalExit == status # "thrown"

\* C3: a FuncCall whose name resolves to a function has a call-site
\* diagnostic exactly when its argument count differs from the parameter
\* count or some argument's type differs from the parameter's type at the
\* same position, whatever calls were analyzed before it.
C3_CallSiteDiagnosedIffMismatch ==
    status = "returned" =>
        \A p \in NodesOfType({"FUNCCALL"}) :
            CallsFunction(p) =>
                ((Diagnostics(p, CallSiteMessages) # {}) <=> CallSiteMismatch(p))

\* C4: a Break or Continue has a control-flow diagnostic exactly when no
\* WhileLoop encloses it, also when it follows a completed inner loop in the
\* body of an outer loop.
C4_JumpDiagnosedIffOutsideLoop ==
    status = "returned" =>
        \A p \in NodesOfType({"BREAKSTMT", "CONTINUESTMT"}) :
            (Diagnostics(p, ControlFlowMessages) # {}) <=> ~EnclosingLoop(p)

\* C5: the returned list holds exactly one duplicate-name diagnostic for
\* every scope and every name that occurs more than once in the scope's
\* local symbol list, whatever the entry-point checks found.
C5_OneDiagnosticPerDuplicate ==
    status = "returned" =>
        \A p \in Scopes :
            Cardinality(Diagnostics(p, {"Duplicate names %s"})) = Cardinality(Repeated(p))

\* C6: a Return with a value has a diagnostic exactly when the value's type
\* differs from the return type of the enclosing function; a bare Return has
\* one exactly when that return type is not Void.
C6_ReturnDiagnosedIffMismatch ==
    status = "returned" =>
        \A p \in NodesOfType({"RETURNSTMT"}) :
            (Diagnostics(p, {"Invalid return type"}) # {}) <=> ReturnMismatch(p)

\* C7: a Location or FuncCall whose name resolves to no symbol of an
\* enclosing scope has exactly one undefined-symbol diagnostic and no type
\* attribute.
C7_UndefinedReportedOnce ==
    status = "returned" =>
        \A p \in NodesOfType({"LOCATION", "FUNCCALL"}) :
            Resolves(p) = NULL_SYMBOL =>
                /\ Cardinality(Diagnostics(p, {"Symbol undefined"})) = 1
                /\ ~ASTNode_has_attribute(attributes[p], "type")

ExpressionNodes == NodesOfType({"BINARYOP", "UNARYOP", "LOCATION", "FUNCCALL", "LITERAL"})

C9_EntryPointDiagnosedIffBadMain ==
    status = "returned" => ((Diagnostics(<<>>, EntryPointMessages) # {}) <=> BadMain)

\* a list was returned for a program whose main is a function with a
\* parameter and a return type other than Int
C9_Witness ==
    /\ status = "returned"
    /\ MainSymbol # NULL_SYMBOL
    /\ Sym(tables, MainSymbol).symbol_type = FUNCTION_SYMBOL
    /\ Len(Sym(tables, MainSymbol).parameters.items) > 0
    /\ Sym(tables, MainSymbol).type # INT
    /\ Diagnostics(<<>>, EntryPointMessages) # {}

\* C10: a BinaryOp or UnaryOp has an operand-type diagnostic exactly when
\* its operands break the rule of its operator: both Bool for || and &&,
\* equal types for == and !=, both Int for the comparisons and the
\* arithmetic operators, Int for negate, Bool for logical-not.
C10_OperandsDiagnosedIffRuleViolated ==
    status = "returned" =>
        \A p \in NodesOfType({"BINARYOP", "UNARYOP"}) :
            (Diagnostics(p, OperandMessages) # {}) <=> OperandRuleViolated(p)

\* a list was returned for a program with an arithmetic operator whose
\* right operand is not Int, diagnosed at the operator
C10_Witness ==
    /\ status = "returned"
    /\ \E p \in NodesOfType({"BINARYOP"}) :
          /\ NodeAt(tree, p).operator \in {ADDOP, SUBOP, MULOP, DIVOP, MODOP}
          /\ GET_INFERRED_TYPE(Append(p, 2)) # INT
          /\ Diagnostics(p, OperandMessages) # {}

AssignmentMessages == {"Expected %s type but type was %s"}

ConditionMessages == {"Conditional type was %s, expected bool"}

DeclarationMessages ==
    {"Void variable", "Local variable cannot be an array", "Array length must be greater than 0"}

\* C11: an Assignment has a type-mismatch diagnostic exactly when the type
\* of its location differs from the type of its value.
C11_AssignmentDiagnosedIffMismatch ==
    status = "returned" =>
        \A p \in NodesOfType({"ASSIGNMENT"}) :
            (Diagnostics(p, AssignmentMessages) # {})
                <=> GET_INFERRED_TYPE(Append(p, 1)) # GET_INFERRED_TYPE(Append(p, 2))

\* a list was returned for a program that assigns a Bool value to an Int
\* location, diagnosed at the assignment
C11_Witness ==
    /\ status = "returned"
    /\ \E p \in NodesOfType({"ASSIGNMENT"}) :
          /\ GET_INFERRED_TYPE(Append(p, 1)) = INT
          /\ GET_INFERRED_TYPE(Append(p, 2)) = BOOL
          /\ Diagnostics(p, AssignmentMessages) # {}

\* C12: a Conditional or WhileLoop has a condition diagnostic exactly when
\* the type of its condition is not Bool.
C12_ConditionDiagnosedIffNotBool ==
    status = "returned" =>
        \A p \in NodesOfType({"CONDITIONAL", "WHILELOOP"}) :
            (Diagnostics(p, ConditionMessages) # {}) <=> GET_INFERRED_TYPE(Append(p, 1)) # BOOL

\* a list was returned for a program with an if or a while on an Int
\* condition, diagnosed at the statement
C12_Witness ==
    /\ status = "returned"
    /\ \E p \in NodesOfType({"CONDITIONAL", "WHILELOOP"}) :
          /\ GET_INFERRED_TYPE(Append(p, 1)) = INT
          /\ Diagnostics(p, ConditionMessages) # {}

\* C13: a VarDecl has a declaration diagnostic exactly when its type is
\* Void, or it is an array declared in a function or block, or it is an
\* array of length less than 1.
C13_DeclarationDiagnosedIffBad ==
    status = "returned" =>
        \A p \in NodesOfType({"VARDECL"}) :
            (Diagnostics(p, DeclarationMessages) # {}) <=> BadDeclaration(p)

\* a list was returned for a program with a global Int array of length 0,
\* diagnosed at the declaration
C13_Witness ==
    /\ status = "returned"
    /\ \E p \in NodesOfType({"VARDECL"}) :
          /\ Len(p) = 1
          /\ NodeAt(tree, p).is_array
          /\ NodeAt(tree, p).array_length = 0
          /\ NodeAt(tree, p).vtype = INT
          /\ Diagnostics(p, DeclarationMessages) # {}

\* the types under which the scope at q declares name: the program its
\* variables, functions and built-ins, a function its parameters, a block
\* its variables
DeclaredTypes(q, name) ==
    LET n == NodeAt(tree, q)
        Of(decls, T(_)) == { T(decls[k]) : k \in { i \in DOMAIN decls : decls[i].name = name } }
        vtype(d) == d.vtype
        return_type(d) == d.return_type
        ptype(d) == d.type
    IN  IF n.type = "PROGRAM"
        THEN Of(n.variables, vtype) \cup Of(n.functions, return_type)
             \cup (IF name \in {"print_int", "print_bool", "print_str"} THEN {VOID} ELSE {})
        ELSE IF n.type = "FUNCDECL" THEN Of(n.parameters, ptype)
        ELSE IF n.type = "BLOCK" THEN Of(n.variables, vtype)
        ELSE {}

\* the enclosing scopes of p that declare name, by the length of their path
DeclaringScopes(p, name) ==
    { k \in 0..Len(p) : DeclaredTypes(SubSeq(p, 1, k), name) # {} }

\* the types name has in the nearest enclosing scope of p that declares it
NearestTypes(p, name) ==
    LET ks == DeclaringScopes(p, name)
    IN  DeclaredTypes(SubSeq(p, 1, CHOOSE k \in ks : \A j \in ks : j <= k), name)

\* C14: a name resolves to its declaration in the nearest enclosing scope
\* that declares it: a Location gets the type of that declaration, also when
\* an outer scope declares the name with another type, a declaration that
\* shadows an outer one has no diagnostic, and shadowing alone never makes
\* the analysis give up.
C14_ResolvesToNearestScope ==
    /\ status = "returned" =>
          /\ \A p \in NodesOfType({"LOCATION"}) :
                IF DeclaringScopes(p, NodeAt(tree, p).name) = {}
                THEN Resolves(p) = NULL_SYMBOL
                ELSE /\ ASTNode_has_attribute(attributes[p], "type")
                     /\ GET_INFERRED_TYPE(p) \in NearestTypes(p, NodeAt(tree, p).name)
          /\ \A p \in NodesOfType({"VARDECL"}) :
                ~BadDeclaration(p) => \A k \in DOMAIN data.errors : data.errors[k].node # p
    /\ status = "thrown" =>
          \/ \E p \in Scopes : Repeated(p) # {}
          \/ NodesOfType({"CONTINUESTMT"}) # {}

\* an empty list was returned for a program in which a Location names an
\* Int local that shadows a Bool global
C14_Witness ==
    /\ status = "returned"
    /\ data.errors = <<>>
    /\ \E p \in NodesOfType({"LOCATION"}) :
          /\ DeclaredTypes(<<>>, NodeAt(tree, p).name) = {BOOL}
          /\ NearestTypes(p, NodeAt(tree, p).name) = {INT}
          /\ GET_INFERRED_TYPE(p) = INT

\* the position among the functions of the program of the function that
\* holds the node at p
FunctionIndex(p) == p[1] - Len(tree.variables)

\* the arguments of the call at p do not fit the parameters of declaration f
SignatureMismatch(p, f) ==
    LET args == NodeAt(tree, p).arguments
    IN  \/ Len(args) # Len(f.parameters)
        \/ \E i \in 1..Len(args) : GET_INFERRED_TYPE(Append(p, i)) # f.parameters[i].type

\* the symbol table of the program holds a function symbol for declaration f
InProgramScope(f) ==
    /\ ASTNode_has_attribute(attributes[<<>>], "symbolTable")
    /\ LET syms == tables[ASTNode_get_attribute(attributes[<<>>], "symbolTable")].local_symbols
       IN  \E k \in DOMAIN syms :
              /\ syms[k].name = f.name
              /\ syms[k].symbol_type = FUNCTION_SYMBOL
              /\ syms[k].type = f.return_type
              /\ syms[k].parameters.items = f.parameters

\* C15: once the builder has run every declared function is in the program
\* scope before a function body is analyzed, so a FuncCall of a function
\* declared later in the program than the call resolves to it and is
\* checked against its signature.
C15_ForwardCallsChecked ==
    /\ pass = "Analysis" =>
          \A j \in DOMAIN tree.functions : InProgramScope(tree.functions[j])
    /\ status = "returned" =>
          \A p \in NodesOfType({"FUNCCALL"}) :
             \A j \in DOMAIN tree.functions :
                (j > FunctionIndex(p) /\ tree.functions[j].name = NodeAt(tree, p).name) =>
                   /\ CallsFunction(p)
                   /\ Sym(tables, Resolves(p)).parameters.items = tree.functions[j].parameters
                   /\ Diagnostics(p, {"Symbol undefined"}) = {}
                   /\ (Diagnostics(p, CallSiteMessages) # {})
                         <=> SignatureMismatch(p, tree.functions[j])

\* the parent and depth attributes of every node, as the getters return them
\* (the parent as a sequence of one path, empty when the node has none)
Decoration(stores) ==
    [p \in DOMAIN stores |->
        [parent |-> IF ASTNode_has_attribute(stores[p], "parent")
                    THEN <<ASTNode_get_attribute(stores[p], "parent")>> ELSE <<>>,
         depth  |-> ASTNode_get_int_attribute(stores[p], "depth")]]

\* C16: a run of SetParent and CalcDepth on a tree that was decorated before
\* completes normally, and at its end every node's parent and depth attributes
\* equal those the run before it left.
C16_SecondDecorationSame ==
    decorated # <<>> =>
        /\ status # "crashed"
        /\ (pass = "CalcDepth" /\ pc > Len(walk)) =>
               Decoration(attributes) = Decoration(decorated[Len(decorated)])

\* the symbol-table builder has returned
Built == pass = "Analysis" \/ (pass = "BuildSymbolTables" /\ pc > Len(walk))

\* C17 as stated: once the builder has returned no scope holds two symbols of
\* one name in its local list, whatever the input program.
C17_NoScopeRepeatsAName ==
    Built => \A p \in Scopes : Repeated(p) = {}

\* C17: when analyze returns the empty list no scope holds two symbols of one
\* name in its local list; the builder itself inserts every declaration
\* unchecked and leaves the check to analyze.
C17_NoScopeRepeatsANameWhenAccepted ==
    (status = "returned" /\ data.errors = <<>>) => \A p \in Scopes : Repeated(p) = {}

\* an accepted program with a global and a function scope of several symbols
C17_Witness ==
    /\ status = "returned"
    /\ data.errors = <<>>
    /\ tree.variables # <<>>
    /\ \E p \in Scopes :
          /\ p # <<>>
          /\ Len(tables[ASTNode_get_attribute(attributes[p], "symbolTable")].local_symbols) > 1

\* the local symbols of the program scope
ProgramScope == tables[ASTNode_get_attribute(attributes[<<>>], "symbolTable")].local_symbols

\* the program scope holds a function symbol name(type) returning Void
BuiltIn(name, type) ==
    \E k \in DOMAIN ProgramScope :
        /\ ProgramScope[k].name = name
        /\ ProgramScope[k].symbol_type = FUNCTION_SYMBOL
        /\ ProgramScope[k].type = VOID
        /\ ProgramScope[k].parameters.size = 1
        /\ ProgramScope[k].parameters.items = <<Parameter_new("value", type)>>

\* C18: once the builder has returned the program scope holds the function
\* symbols print_int(Int), print_bool(Bool) and print_str(Str), each returning
\* Void; they are made by that run: until the builder starts there is no
\* table and no symbol at all.
C18_BuiltInsInProgramScope ==
    /\ Built => BuiltIn("print_int", INT) /\ BuiltIn("print_bool", BOOL) /\ BuiltIn("print_str", STR)
    /\ pass \in {"SetParent", "CalcDepth"} =>
          tables = <<>> /\ ~ASTNode_has_attribute(attributes[<<>>], "symbolTable")

\* the builder has just returned from a program that declares functions and
\* globals of its own
C18_Witness ==
    /\ pass = "BuildSymbolTables"
    /\ pc > Len(walk)
    /\ tree.functions # <<>>
    /\ tree.variables # <<>>
    /\ Len(ProgramScope) > 4

C20_AnalyzeReturns ==
    (pass = "Analysis" /\ status # "running") =>
        /\ status = "returned"
        /\ pc > Len(walk)
        /\ walk[Len(walk)] = Event("post", <<>>)

\* the symbols of all tables
AllSymbols ==
    UNION { { tables[t].local_symbols[k] : k \in DOMAIN tables[t].local_symbols } :
              t \in DOMAIN tables }

\* C21: when analyze returns, every FuncCall's argument list is as before
\* the call (head on the first element, so that size is the number of
\* elements reachable from head) and so is every symbol's parameter list,
\* whether or not diagnostics were emitted.
C21_AnalyzeOnlyAddsAttributes ==
    status = "returned" =>
        /\ \A p \in NodesOfType({"FUNCCALL"}) : arguments_head[p] = 1
        /\ \A sym \in AllSymbols :
              /\ sym.parameters.head = 1
              /\ sym.parameters.size = Len(sym.parameters.items)

\* how often the traversal w invokes the callback e, and where
Invocations(w, e) == Cardinality({ i \in DOMAIN w : w[i] = e })
Invoked(w, e) == CHOOSE i \in DOMAIN w : w[i] = e

\* q is a descendant of p
Below(p, q) == Len(p) < Len(q) /\ SubSeq(q, 1, Len(p)) = p

\* the traversal w of the tree invokes one pre and one post callback for
\* every node, a node's pre before and its post after the callbacks of its
\* descendants, siblings in the order of their lists, and for a BinaryOp
\* the in callback (when the visitor has one) between its two operands
OrderlyTraversal(w, has_invisit) ==
    /\ \A p \in AllPaths(tree) :
          /\ Invocations(w, Event("pre", p)) = 1
          /\ Invocations(w, Event("post", p)) = 1
          /\ Invoked(w, Event("pre", p)) < Invoked(w, Event("post", p))
          /\ Invocations(w, Event("in", p)) =
                (IF has_invisit /\ NodeAt(tree, p).type = "BINARYOP" THEN 1 ELSE 0)
    /\ \A p \in AllPaths(tree), q \in AllPaths(tree) :
          /\ Below(p, q) =>
                /\ Invoked(w, Event("pre", p)) < Invoked(w, Event("pre", q))
                /\ Invoked(w, Event("post", q)) < Invoked(w, Event("post", p))
          /\ (Len(p) = Len(q) /\ p # <<>> /\ Front(p) = Front(q)
                 /\ p[Len(p)] < q[Len(q)]) =>
                Invoked(w, Event("post", p)) < Invoked(w, Event("pre", q))
    /\ \A p \in NodesOfType({"BINARYOP"}) :
          has_invisit =>
             /\ Invoked(w, Event("post", Append(p, 1))) < Invoked(w, Event("in", p))
             /\ Invoked(w, Event("in", p)) < Invoked(w, Event("pre", Append(p, 2)))
    /\ \A i \in DOMAIN w : w[i].node \in AllPaths(tree)

\* C22: every traversal the driver starts, the one after analyze has
\* returned included, invokes the callbacks of every node of the tree in
\* that order.
C22_TraversalVisitsEveryNode ==
    /\ (status = "running" /\ pc = 1) => OrderlyTraversal(walk, pass = "Analysis")
    /\ status = "returned" =>
          OrderlyTraversal(NodeVisitor_traverse(tree, <<>>, arguments_head, FALSE), FALSE)

ScopeNodes == NodesOfType({"PROGRAM", "FUNCDECL", "BLOCK"})

\* the scope nodes whose pre callback has run and whose post has not
OpenScopes ==
    { p \in ScopeNodes : /\ Invoked(walk, Event("pre", p)) < pc
                         /\ pc <= Invoked(walk, Event("post", p)) }

\* the longest of a set of paths that lie on one branch
Innermost(S) == CHOOSE p \in S : \A q \in S : Len(q) <= Len(p)

\* the nearest scope node around the node at p
EnclosingScope(p) == Innermost({ q \in ScopeNodes : Below(q, p) })

TableOf(p) == ASTNode_get_attribute(attributes[p], "symbolTable")

\* the symbols of a list of declarations, in order
DeclaredSymbols(decls) ==
    [k \in DOMAIN decls |->
        IF decls[k].is_array
        THEN Symbol_new_array(decls[k].name, decls[k].vtype, decls[k].array_length)
        ELSE Symbol_new(decls[k].name, decls[k].vtype)]

\* the last n elements of a sequence
Last(seq, n) == SubSeq(seq, Len(seq) - n + 1, Len(seq))

\* C23: during the builder pass the visitor's current scope is the scope of
\* the innermost open scope node, null when none is open; when the pass has
\* ended every scope's parent is the scope of the nearest enclosing scope
\* node, the globals are in the program scope, the parameters in the
\* function scope and the locals in their own block's scope.
C23_CurrentScopeIsInnermostOpen ==
    /\ (pass = "BuildSymbolTables" /\ status = "running") =>
          build_data = (IF OpenScopes = {} THEN NULL_TABLE ELSE TableOf(Innermost(OpenScopes)))
    /\ Built =>
          \A p \in ScopeNodes :
             LET n == NodeAt(tree, p)
                 table == tables[TableOf(p)]
             IN  /\ table.parent = (IF p = <<>> THEN NULL_TABLE ELSE TableOf(EnclosingScope(p)))
                 /\ n.type = "PROGRAM" =>
                       Last(table.local_symbols, Len(n.variables)) = DeclaredSymbols(n.variables)
                 /\ n.type = "FUNCDECL" =>
                       table.local_symbols =
                          [k \in DOMAIN n.parameters |->
                              Symbol_new(n.parameters[k].name, n.parameters[k].type)]
                 /\ n.type = "BLOCK" => table.local_symbols = DeclaredSymbols(n.variables)

\* the builder is inside a block with declarations nested in the body of a
\* function, below a program with globals
C23_Witness ==
    /\ pass = "BuildSymbolTables"
    /\ status = "running"
    /\ pc <= Len(walk)
    /\ Cardinality(OpenScopes) > 3
    /\ tree.variables # <<>>
    /\ tables[build_data].local_symbols # <<>>

\* the diagnostics errs come, in this order, from callbacks that fired at
\* or after position from of the traversal
RECURSIVE FiredInOrder(_, _)
FiredInOrder(errs, from) ==
    IF errs = <<>> THEN TRUE
    ELSE LET at == { i \in from .. (pc - 1) : walk[i].node = Head(errs).node }
         IN  at # {} /\ FiredInOrder(Tail(errs), CHOOSE i \in at : \A j \in at : i <= j)

\* the source lines of the diagnostics never decrease along the list
LinesInOrder ==
    \A j \in DOMAIN data.errors, k \in DOMAIN data.errors :
        j < k => data.errors[j].line <= data.errors[k].line

\* C24: the diagnostics are in the order in which their callbacks fire
\* during the traversal, and the source lines of the nodes that produced
\* them are non-decreasing along the list.
C24_DiagnosticsInLineOrder ==
    pass = "Analysis" => FiredInOrder(data.errors, 1) /\ LinesInOrder

\* the pre callback of node p has fired in the running traversal
PreFired(p) == \E i \in 1 .. (pc - 1) : walk[i] = Event("pre", p)

\* the type of an operator node, by its operator alone
OperatorType(n) ==
    IF n.type = "BINARYOP"
    THEN IF n.operator \in {ADDOP, SUBOP, MULOP, DIVOP, MODOP} THEN INT ELSE BOOL
    ELSE IF n.operator = NEGOP THEN INT ELSE BOOL

\* C25: after analysis a Literal is typed by its literal tag, a resolved
\* Location by the type of its symbol, a resolved FuncCall by the return
\* type of its function; a BinaryOp is Int for + - * / % and Bool
\* otherwise, a UnaryOp Int for negate and Bool for not, and these two have
\* their type from the moment their pre callback has fired, whatever the
\* types of their operands.
C25_TypeAttributes ==
    pass = "Analysis" =>
        /\ \A p \in NodesOfType({"BINARYOP", "UNARYOP"}) :
              PreFired(p) =>
                 /\ ASTNode_has_attribute(attributes[p], "type")
                 /\ GET_INFERRED_TYPE(p) = OperatorType(NodeAt(tree, p))
        /\ status = "returned" =>
              /\ \A p \in NodesOfType({"LITERAL"}) :
                    GET_INFERRED_TYPE(p) = NodeAt(tree, p).ltype
              /\ \A p \in NodesOfType({"LOCATION", "FUNCCALL"}) :
                    Resolves(p) # NULL_SYMBOL =>
                       /\ ASTNode_has_attribute(attributes[p], "type")
                       /\ GET_INFERRED_TYPE(p) = Sym(tables, Resolves(p)).type

\* an analysis has returned for a program with a comparison whose operands
\* are ill typed (it has a diagnostic of its own) and which is typed Bool,
\* a resolved Location and a resolved FuncCall
C25_Witness ==
    /\ pass = "Analysis"
    /\ status = "returned"
    /\ \E p \in NodesOfType({"BINARYOP"}) :
          /\ NodeAt(tree, p).operator = GTOP
          /\ \E k \in DOMAIN data.errors : data.errors[k].node = p
          /\ GET_INFERRED_TYPE(p) = BOOL
    /\ \E p \in NodesOfType({"LOCATION"}) : Resolves(p) # NULL_SYMBOL
    /\ \E p \in NodesOfType({"FUNCCALL"}) : Resolves(p) # NULL_SYMBOL

\* SetParent and then CalcDepth have returned
Decorated == pass \in {"BuildSymbolTables", "Analysis"} \/ (pass = "CalcDepth" /\ pc > Len(walk))

\* C26: after SetParent then CalcDepth the root has no parent attribute and
\* depth 0, and every other node has a parent attribute that refers to its
\* syntactic parent and a depth of its parent's depth plus 1.
C26_ParentAndDepth ==
    Decorated =>
        /\ ~ASTNode_has_attribute(attributes[<<>>], "parent")
        /\ ASTNode_get_int_attribute(attributes[<<>>], "depth") = 0
        /\ \A p \in AllPaths(tree) \ {<<>>} :
              /\ ASTNode_has_attribute(attributes[p], "parent")
              /\ ASTNode_get_attribute(attributes[p], "parent") = Front(p)
              /\ ASTNode_has_attribute(attributes[p], "depth")
              /\ ASTNode_get_int_attribute(attributes[p], "depth")
                    = ASTNode_get_int_attribute(attributes[Front(p)], "depth") + 1

\* both passes have returned for a tree with a node five levels below the root
C26_Witness ==
    /\ pass = "CalcDepth"
    /\ pc > Len(walk)
    /\ \E p \in AllPaths(tree) :
          Len(p) >= 5 /\ ASTNode_get_int_attribute(attributes[p], "depth") = Len(p)

\* the value of the last set of key before position i of calls, 0 when
\* there is none
LastSet(key, i) ==
    LET before == { j \in CallsOf("set") : j < i /\ calls[j].key = key }
    IN  IF before = {} THEN 0
        ELSE calls[CHOOSE j \in before : \A k \in before : k <= j].value

\* how often the destructor passed with the set at position i has been
\* invoked on the value of that set
Destroyed(i) ==
    Cardinality({ j \in CallsOf("dtor") :
                     calls[j].value = calls[i].value /\ calls[j].dtor = calls[i].dtor })

\* the value of the set at position i is no longer in the store
Replaced(i) == \E j \in CallsOf("set") : j > i /\ calls[j].key = calls[i].key

\* C27: whatever the set calls on a node, every call returns, a key is in
\* at most one cell of the store, get returns the value of the last set of
\* the key and null for a key never set, and the destructor passed with a
\* value is invoked exactly once on it: when the value is replaced or when
\* the node is destroyed, and not before.
C27_AttributeStore ==
    pass = "Attributes" =>
        LET store == attributes[<<>>]
        IN  /\ status # "crashed"
            /\ \A i \in DOMAIN store, j \in DOMAIN store :
                  store[i].key = store[j].key => i = j
            /\ \A g \in CallsOf("get") : calls[g].value = LastSet(calls[g].key, g)
            /\ status = "running" =>
                  \A key \in Keys :
                     ASTNode_get_attribute(store, key) = LastSet(key, Len(calls) + 1)
            /\ \A i \in CallsOf("set") :
                  calls[i].dtor # "NULL" =>
                     Destroyed(i) = (IF Replaced(i) \/ status = "freed" THEN 1 ELSE 0)

\* C27 for clients that never replace a value set with a null destructor
C27_AttributeStoreNoNull ==
    (pass = "Attributes" /\ \A i \in CallsOf("set") : calls[i].dtor = "NULL" => ~Replaced(i))
        => C27_AttributeStore

IndexingMessages == {"Expected array index", "Array index must be an integer"}

\* the location at p resolves to an array symbol
NamesArray(p) ==
    /\ Resolves(p) # NULL_SYMBOL
    /\ Sym(tables, Resolves(p)).symbol_type = ARRAY_SYMBOL

\* C28: a Location that resolves to an array symbol has an indexing
\* diagnostic exactly when it has no index expression or the inferred type
\* of its index expression is not Int.
C28_IndexDiagnosedIffBad ==
    status = "returned" =>
        \A p \in NodesOfType({"LOCATION"}) :
            NamesArray(p) =>
                ((Diagnostics(p, IndexingMessages) # {}) <=>
                    (\/ IsNull(NodeAt(tree, p).index)
                     \/ GET_INFERRED_TYPE(Append(p, 1)) # INT))

\* a list was returned for a program with an array location that has a Bool
\* index, or none, and is diagnosed
C28_Witness ==
    /\ status = "returned"
    /\ \E p \in NodesOfType({"LOCATION"}) :
          /\ NamesArray(p)
          /\ Diagnostics(p, IndexingMessages) # {}
          /\ \/ IsNull(NodeAt(tree, p).index)
             \/ GET_INFERRED_TYPE(Append(p, 1)) = BOOL

\* C29: a FuncCall whose name resolves to a symbol that is not a function
\* (a scalar or an array variable) has a diagnostic, whatever the number
\* of its arguments, zero included.
C29_CallOfVariableDiagnosed ==
    status = "returned" =>
        \A p \in NodesOfType({"FUNCCALL"}) :
            (Resolves(p) # NULL_SYMBOL /\ ~CallsFunction(p)) =>
                \E k \in DOMAIN data.errors : data.errors[k].node = p

\* C29 for calls with at least one argument
C29_CallOfVariableWithArgumentsDiagnosed ==
    status = "returned" =>
        \A p \in NodesOfType({"FUNCCALL"}) :
            (/\ Resolves(p) # NULL_SYMBOL
             /\ ~CallsFunction(p)
             /\ NodeAt(tree, p).arguments # <<>>) =>
                \E k \in DOMAIN data.errors : data.errors[k].node = p

\* the builder's program callback has returned
FunctionsInserted ==
    \/ pass = "Analysis"
    \/ pass = "BuildSymbolTables" /\ pc > 1

\* the symbol inserted for the k-th function declaration: the three print
\* functions come first in the program scope
FunctionSymbol(k) == ProgramScope[3 + k]

\* C30: for every user-declared function the program scope holds a function
\* symbol with the declared name and return type and with a parameter list
\* of its own that has the names and types of the declaration's parameters
\* in the same order; as the builder leaves it the list starts at its first
\* element.  No step of the builder or of analyze changes the FuncDecl
\* node's parameter list.
C30_FunctionSymbolCopiesDeclaration ==
    /\ [](FunctionsInserted =>
            \A k \in DOMAIN tree.functions :
               LET decl == tree.functions[k]
                   sym == FunctionSymbol(k)
               IN  /\ sym.symbol_type = FUNCTION_SYMBOL
                   /\ sym.name = decl.name
                   /\ sym.type = decl.return_type
                   /\ sym.parameters.size = Len(decl.parameters)
                   /\ sym.parameters.items = decl.parameters
                   /\ pass = "BuildSymbolTables" => sym.parameters.head = 1)
    /\ [][\A k \in DOMAIN tree.functions :
             /\ k \in DOMAIN tree'.functions
             /\ tree'.functions[k].parameters = tree.functions[k].parameters]_vars

\* the builder has returned for a program with a function of two parameters
\* of different types, and analyze has moved the head of the symbol's copy
C30_Witness ==
    /\ pass = "Analysis"
    /\ \E k \in DOMAIN tree.functions :
          /\ Len(tree.functions[k].parameters) = 2
          /\ tree.functions[k].parameters[1].type # tree.functions[k].parameters[2].type
          /\ FunctionSymbol(k).parameters.items = tree.functions[k].parameters
          /\ FunctionSymbol(k).parameters.head > 1

====
